---- MODULE Spec2Model ----
(***************************************************************************)
(* Model of the batch registration service (core/register_service.py):     *)
(* the task registry and start_register, the coroutine                     *)
(* _run_register_async, the single-worker executor, run_with_timeout and   *)
(* the per-attempt signup flow _register_one_sync_inner.                   *)
(*                                                                         *)
(* Granularity.  The coroutine runs on the asyncio event loop, so one      *)
(* action is one turn of a coroutine between two awaits.  The executor    *)
(* worker and the threads started by run_with_timeout are real threads;   *)
(* each of their steps is one action.  Time is abstracted: the deadline   *)
(* of thread.join may fire at any moment while the joined thread is alive. *)
(*                                                                         *)
(* The helpers of util/gemini_auth_utils.py (code extraction, the inbox    *)
(* poller, mailbox allocation, the workspace wait, robust typing) follow   *)
(* the service; each has a specification of its own over single calls.     *)
(***************************************************************************)
EXTENDS Integers, Sequences, FiniteSets, TLC

\* ---------------------------------------------------------------- bounds
\* number of start_register calls that are accepted
MaxTasks == 2
\* total number of attempts requested over all tasks (sum of `count`)
MaxAttempts == 2

\* ------------------------------------------------------------- constants
\* Python's None for the string-valued optional fields
None == "None"
\* values of the `domain` argument of start_register
Domains == {None, "d.example"}

\* RegisterStatus
PENDING == "pending"
RUNNING == "running"
SUCCESS == "success"
FAILED == "failed"

\* the error texts of the failure results, one per return statement
ErrImport == "selenium_not_installed"
ErrNoMailbox == "cannot_create_mailbox"
ErrNoEmailInput == "email_input_not_found"
ErrEmailType == "email_input_failed"
ErrContinue == "continue_click_failed"
ErrCodeTimeout == "code_timeout"
ErrCodeFill == "code_input_failed"
ErrNameType == "name_input_failed"
ErrNoNameInput == "name_input_not_found"
ErrWorkspace == "workspace_not_reached"
ErrExtract == "config_extract_failed"
ErrTimeout == "timeout_gt_90s"
\* str(e) of an exception raised by the driver, the network or the config
ExcMessage == "exception_text"

\* the states of one signup attempt, in the order of the code
StateOrder ==
  << "acquire_mailbox", "submit_email", "await_code", "fill_code",
     "enter_name", "await_workspace", "extract_credentials" >>

VARIABLES
  tasks,             \* _tasks: the registry, task id = index
  current_task_id,   \* _current_task_id, 0 = None
  specified_domain,  \* _specified_domain
  coro,              \* position of each task's _run_register_async coroutine
  queue,             \* work queue of the ThreadPoolExecutor(max_workers=1)
  job,               \* what the executor's worker is running
  future,            \* per task: the result of its run_in_executor future
  threads,           \* the threads started by run_with_timeout
  accounts,          \* accounts.json: the persisted credential records
  call               \* the locals of a helper call of gemini_auth_utils.py

vars == << tasks, current_task_id, specified_domain, coro, queue, job,
           future, threads, accounts, call >>

\* the variables of the registration service
service == << tasks, current_task_id, specified_domain, coro, queue, job,
              future, threads, accounts >>

\* ------------------------------------------------------------ data model

\* RegisterTask(id, count) with the dataclass defaults
RegisterTask(count) ==
  [ count |-> count, status |-> PENDING, progress |-> 0,
    success_count |-> 0, fail_count |-> 0, finished_at |-> FALSE,
    results |-> << >>, error |-> None ]

\* the result dict of one attempt; email and config 0 = None
Result(email, success, config, error) ==
  [ email |-> email, success |-> success, config |-> config, error |-> error ]

FailureResult(email, error) == Result(email, FALSE, 0, error)

TaskIds == 1 .. Len(tasks)
ThreadIds == 1 .. Len(threads)

RECURSIVE SumCounts(_)
SumCounts(n) == IF n = 0 THEN 0 ELSE tasks[n].count + SumCounts(n - 1)

Abandoned == { w \in ThreadIds : threads[w].abandoned }

Idle == [ task |-> 0, thread |-> 0 ]

\* no helper call is being examined
NoCall == [ fn |-> "none" ]

\* the service right after RegisterService()
InitService ==
  /\ tasks = << >>
  /\ current_task_id = 0
  /\ specified_domain = None
  /\ coro = << >>
  /\ queue = << >>
  /\ job = Idle
  /\ future = << >>
  /\ threads = << >>
  /\ accounts = << >>

Init == InitService /\ call = NoCall

\* ------------------------------------------------- start_register (loop)

\* the precondition of start_register: no current task in the running state
StartAllowed ==
  ~ (current_task_id # 0 /\ tasks[current_task_id].status = RUNNING)

\* start_register accepted: the task is registered, made current, and its
\* coroutine is scheduled with asyncio.create_task (it has not run yet)
StartRegister(count, domain) ==
  /\ StartAllowed
  /\ Len(tasks) < MaxTasks
  /\ specified_domain' = domain
  /\ tasks' = Append(tasks, RegisterTask(count))
  /\ current_task_id' = Len(tasks) + 1
  /\ coro' = Append(coro, "scheduled")
  /\ future' = Append(future, << >>)
  /\ UNCHANGED << queue, job, threads, accounts, call >>

\* start_register raising ValueError
StartRejected ==
  /\ ~ StartAllowed
  /\ UNCHANGED vars

\* --------------------------------------------- _run_register_async (loop)

\* mutant: the comparison of the status line off by one
FinalStatusNonNegative(success_count) ==
  IF success_count >= 0 THEN SUCCESS ELSE FAILED

\* the status after the loop
FinalStatus(success_count) == IF success_count > 0 THEN SUCCESS ELSE FAILED

\* the loop ended: the status line and the finally block
Finished(task) ==
  [ task EXCEPT !.status = FinalStatus(task.success_count),
                !.finished_at = TRUE ]

\* mutant: the finally block reached with the status left as it was
ErroredKeepsStatus(task, msg) ==
  [ task EXCEPT !.error = msg, !.finished_at = TRUE ]

\* the except branch and the finally block
Errored(task, msg) ==
  [ task EXCEPT !.status = FAILED, !.error = msg, !.finished_at = TRUE ]

\* mutant: both counters grow with every result
RecordResultBoth(task, r) ==
  [ task EXCEPT !.results = Append(@, r),
                !.success_count = @ + 1,
                !.fail_count = @ + 1 ]

\* mutant: a failed attempt marks the task failed
RecordResultAborts(task, r) ==
  [ task EXCEPT !.results = Append(@, r),
                !.success_count = IF r.success THEN @ + 1 ELSE @,
                !.fail_count = IF r.success THEN @ ELSE @ + 1,
                !.status = IF r.success THEN @ ELSE FAILED ]

\* mutant: the result is put in front of the earlier ones
RecordResultInFront(task, r) ==
  [ task EXCEPT !.results = << r >> \o @,
                !.success_count = IF r.success THEN @ + 1 ELSE @,
                !.fail_count = IF r.success THEN @ ELSE @ + 1 ]

\* results.append(result) and the two counters
RecordResult(task, r) ==
  [ task EXCEPT !.results = Append(@, r),
                !.success_count = IF r.success THEN @ + 1 ELSE @,
                !.fail_count = IF r.success THEN @ ELSE @ + 1 ]

\* the progress field at the head of iteration i
ProgressAt(i) == i + 1

\* mutant: a sleep after the last iteration as well
SleepsAfterEvery(i, count) == i < count

\* whether the pacing sleep follows iteration i
SleepsAfter(i, count) == i < count - 1

\* mutant: the finally block without the line that clears the pointer
ReturnKeepsPointer(t, task) ==
  /\ tasks' = [ tasks EXCEPT ![t] = task ]
  /\ coro' = [ coro EXCEPT ![t] = "done" ]
  /\ UNCHANGED current_task_id

\* the coroutine of task t returns: its finally block clears the pointer
Return(t, task) ==
  /\ tasks' = [ tasks EXCEPT ![t] = task ]
  /\ coro' = [ coro EXCEPT ![t] = "done" ]
  /\ current_task_id' = 0

\* head of iteration i, up to the await of run_in_executor; submitting to
\* the executor either queues the job or raises (executor shut down)
Iterate(t, task, i) ==
  LET tk == [ task EXCEPT !.progress = ProgressAt(i) ] IN
  \/ /\ tasks' = [ tasks EXCEPT ![t] = tk ]
     /\ queue' = Append(queue, t)
     /\ coro' = [ coro EXCEPT ![t] = "await_executor" ]
     /\ UNCHANGED current_task_id
  \/ /\ Return(t, Errored(tk, ExcMessage))
     /\ UNCHANGED queue

\* first turn of the coroutine; the loop runs scheduled coroutines in the
\* order they were created
Begin(t) ==
  /\ coro[t] = "scheduled"
  /\ \A u \in 1 .. (t - 1) : coro[u] # "scheduled"
  /\ LET tk == [ tasks[t] EXCEPT !.status = RUNNING ] IN
       IF tk.count > 0
         THEN Iterate(t, tk, 0)
         ELSE Return(t, Finished(tk)) /\ UNCHANGED queue
  /\ UNCHANGED << specified_domain, job, future, threads, accounts, call >>

\* the future of run_in_executor completed: record, then sleep or finish
Resume(t) ==
  /\ coro[t] = "await_executor"
  /\ future[t] # << >>
  /\ LET tk == RecordResult(tasks[t], future[t][1]) IN
       IF SleepsAfter(tk.progress - 1, tk.count)
         THEN /\ tasks' = [ tasks EXCEPT ![t] = tk ]
              /\ coro' = [ coro EXCEPT ![t] = "sleeping" ]
              /\ UNCHANGED current_task_id
         ELSE Return(t, Finished(tk))
  /\ future' = [ future EXCEPT ![t] = << >> ]
  /\ UNCHANGED << specified_domain, queue, job, threads, accounts, call >>

\* asyncio.sleep(random.randint(2, 5)) is over: next iteration
Wake(t) ==
  /\ coro[t] = "sleeping"
  /\ Iterate(t, tasks[t], tasks[t].progress)
  /\ UNCHANGED << specified_domain, job, future, threads, accounts, call >>

\* ------------------------------------- _register_one_sync_inner (thread)

\* a thread started by run_with_timeout, about to run func: its position,
\* the locals email and driver, and result[0] and exception[0] of the
\* enclosing call.  Bookkeeping of the model: the task and the number of
\* the attempt the thread was started for, whether join gave up on it, and
\* hist, the states the attempt entered and how each ended.
NewThread(t, n) ==
  [ pc |-> "acquire_mailbox", email |-> 0, driver |-> "none",
    ret |-> << >>, exc |-> None,
    task |-> t, attempt |-> n, abandoned |-> FALSE, hist |-> << >> ]

Entered(th, st, ok) ==
  [ th EXCEPT !.hist = Append(@, [ state |-> st, ok |-> ok ]) ]

\* a state passed its gate: the attempt moves on to `next`
Pass(th, st, next) == [ Entered(th, st, TRUE) EXCEPT !.pc = next ]

\* a state failed inside the try block: `return {... "success": False ...}`
\* (or the except branch), then the finally block
Abort(th, st, err) ==
  [ Entered(th, st, FALSE) EXCEPT !.ret = << FailureResult(th.email, err) >>,
                                  !.pc = "teardown" ]

\* one gated state of the flow: it passes, or fails with one of `errors`
\* or with an exception, whose text becomes the error
StateStep(w, st, next, errors) ==
  /\ threads[w].pc = st
  /\ \E o \in {"ok"} \cup errors \cup {ExcMessage} :
       threads' = [ threads EXCEPT ![w] =
                      IF o = "ok" THEN Pass(@, st, next) ELSE Abort(@, st, o) ]
  /\ UNCHANGED << tasks, current_task_id, specified_domain, coro, queue, job,
                  future, accounts, call >>

\* the imports, then _get_email(): both lie before the try block, so a
\* missing mailbox returns at once and an exception leaves the function
AcquireMailbox(w) ==
  /\ threads[w].pc = "acquire_mailbox"
  /\ \/ threads' = [ threads EXCEPT ![w] =
                       [ @ EXCEPT !.ret = << FailureResult(0, ErrImport) >>,
                                  !.pc = "done" ] ]
     \/ threads' = [ threads EXCEPT ![w] =
                       [ Pass(@, "acquire_mailbox", "open_browser")
                           EXCEPT !.email = w ] ]
     \/ threads' = [ threads EXCEPT ![w] =
                       [ Entered(@, "acquire_mailbox", FALSE)
                           EXCEPT !.ret = << FailureResult(0, ErrNoMailbox) >>,
                                  !.pc = "done" ] ]
     \/ threads' = [ threads EXCEPT ![w] =
                       [ Entered(@, "acquire_mailbox", FALSE)
                           EXCEPT !.exc = ExcMessage, !.pc = "done" ] ]
  /\ UNCHANGED << tasks, current_task_id, specified_domain, coro, queue, job,
                  future, accounts, call >>

\* uc.Chrome(...) and driver.get(login_url): either may raise, the first
\* before `driver` is bound
OpenBrowser(w) ==
  /\ threads[w].pc = "open_browser"
  /\ LET th == threads[w]
         raised == << FailureResult(th.email, ExcMessage) >> IN
       \/ threads' = [ threads EXCEPT ![w] =
                         [ th EXCEPT !.driver = "open", !.pc = "submit_email" ] ]
       \/ threads' = [ threads EXCEPT ![w] =
                         [ th EXCEPT !.ret = raised, !.pc = "teardown" ] ]
       \/ threads' = [ threads EXCEPT ![w] =
                         [ th EXCEPT !.driver = "open", !.ret = raised,
                                     !.pc = "teardown" ] ]
  /\ UNCHANGED << tasks, current_task_id, specified_domain, coro, queue, job,
                  future, accounts, call >>

SubmitEmail(w) ==
  StateStep(w, "submit_email", "await_code",
            { ErrNoEmailInput, ErrEmailType, ErrContinue })

AwaitCode(w) == StateStep(w, "await_code", "fill_code", { ErrCodeTimeout })

\* mutant: the result of fill_verification_code is not checked
FillCodeUnchecked(w) ==
  /\ threads[w].pc = "fill_code"
  /\ \E ok \in BOOLEAN :
       threads' = [ threads EXCEPT ![w] =
                      [ Entered(@, "fill_code", ok) EXCEPT !.pc = "enter_name" ] ]
  /\ UNCHANGED << tasks, current_task_id, specified_domain, coro, queue, job,
                  future, accounts, call >>

\* fill_verification_code; the verify click that follows is not checked
FillCode(w) == StateStep(w, "fill_code", "enter_name", { ErrCodeFill })

\* the name field; the primary-action click that follows is not checked
EnterName(w) ==
  StateStep(w, "enter_name", "await_workspace", { ErrNameType, ErrNoNameInput })

AwaitWorkspace(w) ==
  StateStep(w, "await_workspace", "extract_credentials", { ErrWorkspace })

ExtractCredentials(w) ==
  StateStep(w, "extract_credentials", "save_config", { ErrExtract })

\* _save_config appends the record; the attempt returns success
SaveConfig(w) ==
  /\ threads[w].pc = "save_config"
  /\ accounts' = Append(accounts, [ id |-> threads[w].email ])
  /\ LET th == threads[w] IN
       threads' = [ threads EXCEPT ![w] =
                      [ th EXCEPT !.ret = << Result(th.email, TRUE, th.email, None) >>,
                                  !.pc = "teardown" ] ]
  /\ UNCHANGED << tasks, current_task_id, specified_domain, coro, queue, job,
                  future, call >>

\* the finally block: driver.quit() if a driver was bound
Quit(driver) == IF driver = "open" THEN "closed" ELSE driver

Teardown(w) ==
  /\ threads[w].pc = "teardown"
  /\ threads' = [ threads EXCEPT ![w] =
                    [ @ EXCEPT !.driver = Quit(@), !.pc = "done" ] ]
  /\ UNCHANGED << tasks, current_task_id, specified_domain, coro, queue, job,
                  future, accounts, call >>

ThreadStep(w) ==
  \/ AcquireMailbox(w)
  \/ OpenBrowser(w)
  \/ SubmitEmail(w)
  \/ AwaitCode(w)
  \/ FillCode(w)
  \/ EnterName(w)
  \/ AwaitWorkspace(w)
  \/ ExtractCredentials(w)
  \/ SaveConfig(w)
  \/ Teardown(w)

\* ---------------------------- run_with_timeout, _register_one_sync (worker)

\* mutant: every failure of the thread is reported as a timeout
RunWithTimeoutAllTimeouts(th) ==
  IF th.pc # "done" \/ th.exc # None
    THEN [ kind |-> "timeout", value |-> << >>, exc |-> None ]
    ELSE [ kind |-> "value", value |-> th.ret, exc |-> None ]

\* what run_with_timeout gives its caller once join has returned
RunWithTimeout(th) ==
  IF th.pc # "done"
    THEN [ kind |-> "timeout", value |-> << >>, exc |-> None ]
    ELSE IF th.exc # None
      THEN [ kind |-> "raise", value |-> << >>, exc |-> th.exc ]
      ELSE [ kind |-> "value", value |-> th.ret, exc |-> None ]

\* _register_one_sync: the value, or a failure result for either exception
RegisterOneSync(out) ==
  CASE out.kind = "value" -> out.value[1]
    [] out.kind = "timeout" -> FailureResult(0, ErrTimeout)
    [] out.kind = "raise" -> FailureResult(0, out.exc)

\* the executor's only worker takes the next job, and run_with_timeout
\* starts the thread of the attempt
RunJob ==
  /\ job = Idle
  /\ queue # << >>
  /\ threads' = Append(threads,
                       NewThread(Head(queue), tasks[Head(queue)].progress))
  /\ job' = [ task |-> Head(queue), thread |-> Len(threads) + 1 ]
  /\ queue' = Tail(queue)
  /\ UNCHANGED << tasks, current_task_id, specified_domain, coro, future,
                  accounts, call >>

\* join returned because the thread ended
GuardReturn ==
  /\ job # Idle
  /\ threads[job.thread].pc = "done"
  /\ future' = [ future EXCEPT ![job.task] =
                   << RegisterOneSync(RunWithTimeout(threads[job.thread])) >> ]
  /\ job' = Idle
  /\ UNCHANGED << tasks, current_task_id, specified_domain, coro, queue,
                  threads, accounts, call >>

\* mutant: thread.join() without a timeout never gives up
JoinWithoutDeadline == FALSE /\ UNCHANGED vars

\* join returned because the deadline passed: the thread is left running
GuardTimeout ==
  /\ job # Idle
  /\ threads[job.thread].pc # "done"
  /\ future' = [ future EXCEPT ![job.task] =
                   << RegisterOneSync(RunWithTimeout(threads[job.thread])) >> ]
  /\ threads' = [ threads EXCEPT ![job.thread].abandoned = TRUE ]
  /\ job' = Idle
  /\ UNCHANGED << tasks, current_task_id, specified_domain, coro, queue,
                  accounts, call >>

\* ------------------------------------------------------------------ spec

Next ==
  \/ \E count \in 0 .. (MaxAttempts - SumCounts(Len(tasks))), domain \in Domains :
       StartRegister(count, domain)
  \/ StartRejected
  \/ \E t \in TaskIds : Begin(t)
  \/ \E t \in TaskIds : Resume(t)
  \/ \E t \in TaskIds : Wake(t)
  \/ RunJob
  \/ GuardReturn
  \/ GuardTimeout
  \/ \E w \in ThreadIds : ThreadStep(w)

Spec == Init /\ [][Next]_vars

\* Scheduling.  The event loop runs every ready coroutine; the executor's
\* worker takes queued jobs; thread.join(timeout) returns when the thread
\* ends or the deadline passes, whichever is first.  Nothing makes the
\* thread of an attempt itself advance: a signup may hang for ever.
LoopTurn ==
  \/ \E t \in TaskIds : Begin(t)
  \/ \E t \in TaskIds : Resume(t)
  \/ \E t \in TaskIds : Wake(t)

Join == GuardReturn \/ GuardTimeout

FairSpec ==
  Spec /\ WF_vars(LoopTurn) /\ WF_vars(RunJob) /\ WF_vars(Join)

\* ---------------------------------------------------------------- claims

Terminal(task) == task.status \in { SUCCESS, FAILED }
Completed(task) == task.success_count + task.fail_count
ThreadsOf(t) == { w \in ThreadIds : threads[w].task = t }
Last(seq) == seq[Len(seq)]

\* C1: a task that finished without an orchestration-level error has
\* progress = success_count + fail_count = count, and its status is success
\* exactly when success_count > 0 (so count = 0 finishes as failed).
C1_FinishedCounts ==
  \A t \in TaskIds :
    (tasks[t].finished_at /\ tasks[t].error = None) =>
      /\ tasks[t].progress = Completed(tasks[t])
      /\ Completed(tasks[t]) = tasks[t].count
      /\ Terminal(tasks[t])
      /\ (tasks[t].status = SUCCESS) <=> (tasks[t].success_count > 0)

\* C1 witness: a task of count 2 finished with one success and one failure,
\* beside a task of count 0 that finished as failed.
C1_Witness ==
  \E t, u \in TaskIds :
    /\ tasks[t].finished_at /\ tasks[t].error = None /\ tasks[t].count = 2
    /\ tasks[t].success_count = 1 /\ tasks[t].fail_count = 1
    /\ tasks[t].status = SUCCESS
    /\ tasks[u].finished_at /\ tasks[u].error = None /\ tasks[u].count = 0
    /\ tasks[u].status = FAILED

\* C2 as stated: in every reachable state progress = success_count +
\* fail_count <= count, and status = success only if success_count > 0.
C2_Original ==
  \A t \in TaskIds :
    /\ tasks[t].progress = Completed(tasks[t])
    /\ Completed(tasks[t]) <= tasks[t].count
    /\ (tasks[t].status = SUCCESS) => (tasks[t].success_count > 0)

\* C2 amended: in every reachable state success_count + fail_count <=
\* progress <= count; progress is one ahead of success_count + fail_count
\* exactly from the start of an attempt until its result is recorded (and
\* stays so in a task ended by an orchestration-level error), and equals it
\* otherwise; status = success only if success_count > 0.
C2_ProgressBounds ==
  \A t \in TaskIds :
    /\ Completed(tasks[t]) <= tasks[t].progress
    /\ tasks[t].progress <= tasks[t].count
    /\ IF coro[t] = "await_executor" \/ tasks[t].error # None
         THEN tasks[t].progress = Completed(tasks[t]) + 1
         ELSE tasks[t].progress = Completed(tasks[t])
    /\ (tasks[t].status = SUCCESS) => (tasks[t].success_count > 0)

\* C2 witness: the second attempt of a task is in flight, one result is
\* recorded and progress is 2.
C2_Witness ==
  \E t \in TaskIds :
    /\ coro[t] = "await_executor"
    /\ tasks[t].progress = 2
    /\ Completed(tasks[t]) = 1
    /\ \E w \in ThreadsOf(t) : threads[w].attempt = 2 /\ threads[w].driver = "open"

\* C3: whenever some task is in the running state, a call of start_register
\* is rejected by its precondition check (and then changes nothing).
C3_RunningRejectsStart ==
  (\E t \in TaskIds : tasks[t].status = RUNNING) => ~ StartAllowed

\* C4: the registry never holds two tasks that are both unfinished
\* (pending or running).
C4_OneUnfinished ==
  Cardinality({ t \in TaskIds : tasks[t].status \in { PENDING, RUNNING } }) <= 1

\* C5: at most one attempt has a browser open and is executing its steps,
\* abandoned threads included.
C5_OneBrowser ==
  Cardinality({ w \in ThreadIds :
                  threads[w].driver = "open" /\ threads[w].pc # "done" }) <= 1

\* C6: when join returns, the caller of the guard gets exactly the value
\* the thread returned, or the failure it raised (which _register_one_sync
\* reports as the error text), or, with the thread still running, the
\* timeout failure; a timed-out thread is left as it is, still running, is
\* never joined again, and the result recorded for its attempt stays the
\* timeout failure whatever the thread produces later.
C6_GuardDelivers ==
  [][ /\ \A t \in TaskIds :
           (future[t] = << >> /\ future'[t] # << >>) =>
             LET th == threads[job.thread]
                 r == future'[t][1] IN
               /\ job.task = t
               /\ ~ th.abandoned
               /\ (th.pc = "done" /\ th.exc = None) => r = th.ret[1]
               /\ (th.pc = "done" /\ th.exc # None) =>
                    r = [ email |-> 0, success |-> FALSE, config |-> 0,
                          error |-> th.exc ]
               /\ (th.pc # "done") =>
                    /\ r = [ email |-> 0, success |-> FALSE, config |-> 0,
                             error |-> ErrTimeout ]
                    /\ threads'[job.thread] = [ th EXCEPT !.abandoned = TRUE ]
      /\ \A w \in 1 .. Len(threads') :
           threads'[w].abandoned =>
             /\ job'.thread # w
             /\ Len(tasks'[threads'[w].task].results) >= threads'[w].attempt =>
                  tasks'[threads'[w].task].results[threads'[w].attempt].error
                    = ErrTimeout
    ]_vars

\* C6 witness: a thread the guard gave up on has since run to the end and
\* produced a success value, while its attempt is recorded as timed out.
C6_Witness ==
  \E w \in Abandoned :
    /\ threads[w].pc = "done"
    /\ threads[w].ret # << >>
    /\ threads[w].ret[1].success
    /\ Len(tasks[threads[w].task].results) >= threads[w].attempt
    /\ tasks[threads[w].task].results[threads[w].attempt].error = ErrTimeout

\* C7: every started task eventually reaches a terminal status with
\* finished_at set, also when its attempts never return.
C7_Terminates ==
  \A t \in 1 .. MaxTasks :
    (Len(tasks) >= t) ~>
      (Len(tasks) >= t /\ Terminal(tasks[t]) /\ tasks[t].finished_at)

\* C7 witness: a task of count 2 has finished although neither of its
\* attempts ever got past its first step; both are recorded as timed out.
C7_Witness ==
  \E t \in TaskIds :
    /\ tasks[t].count = 2
    /\ tasks[t].finished_at /\ tasks[t].status = FAILED
    /\ Len(tasks[t].results) = 2
    /\ \A k \in 1 .. 2 : tasks[t].results[k].error = ErrTimeout
    /\ \A w \in ThreadsOf(t) : threads[w].pc = "acquire_mailbox"

\* C8: recording the result of an attempt appends exactly one result; if
\* the attempt failed, whatever the kind of failure, the result has
\* success = false and a non-empty error, fail_count grows by one and
\* success_count stays, the task does not end in an error, and it stays
\* running as long as attempts remain (after the last attempt it ends with
\* the status its success_count gives).  No attempt is retried: a task
\* starts at most count attempts, each number once, and one that finished
\* without an orchestration-level error started and recorded exactly count.
C8_FailureIsLocal ==
  [][ /\ \A t \in TaskIds :
           (tasks'[t].results # tasks[t].results) =>
             LET old == tasks[t]
                 new == tasks'[t]
                 r == Last(new.results) IN
               /\ new.results = Append(old.results, r)
               /\ ~ r.success =>
                    /\ r.error \notin { None, "" }
                    /\ r.config = 0
                    /\ new.fail_count = old.fail_count + 1
                    /\ new.success_count = old.success_count
                    /\ new.error = None
                    /\ IF Len(new.results) < new.count
                         THEN new.status = RUNNING /\ ~ new.finished_at
                         ELSE /\ new.finished_at
                              /\ new.status =
                                   IF new.success_count > 0 THEN SUCCESS ELSE FAILED
      /\ \A t \in 1 .. Len(tasks') :
           LET mine == { w \in 1 .. Len(threads') : threads'[w].task = t } IN
             /\ Cardinality(mine) <= tasks'[t].count
             /\ \A v, w \in mine :
                  threads'[v].attempt = threads'[w].attempt => v = w
             /\ (tasks'[t].finished_at /\ tasks'[t].error = None) =>
                  /\ Cardinality(mine) = tasks'[t].count
                  /\ Len(tasks'[t].results) = tasks'[t].count
    ]_vars

\* C8 witness: the first attempt of a task of count 2 failed for a missing
\* verification code; the task is running and goes on to its second attempt.
C8_Witness ==
  \E t \in TaskIds :
    /\ tasks[t].count = 2
    /\ Len(tasks[t].results) = 1
    /\ tasks[t].results[1].error = ErrCodeTimeout
    /\ tasks[t].fail_count = 1
    /\ tasks[t].status = RUNNING
    /\ \E w \in ThreadsOf(t) : threads[w].attempt = 2

\* the result an ended thread gives the batch
Outcome(th) == RegisterOneSync(RunWithTimeout(th))

\* C9: an attempt enters its states strictly in the order of StateOrder;
\* a state is entered only after every earlier state succeeded; once a
\* state failed the attempt enters no further state, persists no
\* credential, and ends with a result that has success = false and a
\* non-empty error.
C9_HardGates ==
  \A w \in ThreadIds :
    LET th == threads[w]
        h == th.hist
        failed == \E k \in 1 .. Len(h) : ~ h[k].ok IN
      /\ Len(h) <= Len(StateOrder)
      /\ \A k \in 1 .. Len(h) : h[k].state = StateOrder[k]
      /\ \A k \in 1 .. (Len(h) - 1) : h[k].ok
      /\ th.pc \in { StateOrder[k] : k \in 1 .. Len(StateOrder) } =>
           /\ ~ failed
           /\ th.pc = StateOrder[Len(h) + 1]
      /\ th.pc = "save_config" => (Len(h) = Len(StateOrder) /\ ~ failed)
      /\ failed =>
           /\ th.pc \in { "teardown", "done" }
           /\ \A k \in 1 .. Len(accounts) : accounts[k].id # w
           /\ th.pc = "done" =>
                /\ ~ Outcome(th).success
                /\ Outcome(th).error \notin { None, "" }
                /\ Outcome(th).config = 0
      /\ (\E k \in 1 .. Len(accounts) : accounts[k].id = w) =>
           (Len(h) = Len(StateOrder) /\ ~ failed)

\* C9 witness: an attempt failed in its fourth state, fill code, after the
\* first three passed, and has ended.
C9_Witness ==
  \E w \in ThreadIds :
    /\ threads[w].pc = "done"
    /\ Len(threads[w].hist) = 4
    /\ ~ threads[w].hist[4].ok
    /\ threads[w].ret = << [ email |-> w, success |-> FALSE, config |-> 0,
                             error |-> ErrCodeFill ] >>
    /\ threads[w].driver = "closed"

\* C10: once the result of an attempt is recorded in its task, the browser
\* session of that attempt is not open any more.
C10_ClosedWhenRecorded ==
  [][ \A t \in TaskIds :
        (tasks'[t].results # tasks[t].results) =>
          \A w \in ThreadsOf(t) :
            threads[w].attempt = Len(tasks'[t].results) =>
              threads[w].driver # "open"
    ]_vars

\* C11: the store holds no credential record of an attempt whose recorded
\* result has success = false, the attempts recorded as timed out included.
C11_RecordOnlyForSuccess ==
  \A t \in TaskIds :
    \A k \in 1 .. Len(tasks[t].results) :
      ~ tasks[t].results[k].success =>
        \A w \in ThreadsOf(t) :
          threads[w].attempt = k =>
            \A a \in 1 .. Len(accounts) : accounts[a].id # threads[w].email

\* ================================================================ helpers
\* The helper functions of util/gemini_auth_utils.py are examined one call
\* at a time: `call` holds the arguments and locals of the call, the
\* service stays as constructed, and every answer of the mail API, the
\* page or the driver is chosen freely at the step that reads it.

\* ----------------------------------------------- _extract_code_from_html
\* A mail body is a sequence of elements in document order; an element has
\* a tag, a class attribute and its text, a sequence of tokens.  A token is
\* a maximal run of word characters w (a sequence of characters) with the
\* separator that follows it: " " white space, ":" a colon, "." other
\* punctuation, "" nothing (the element ends right after the token).
\* Nesting of elements is not modelled.

Digit == { "0", "1", "2", "3", "4", "5", "6", "7", "8", "9" }
Upper == { "A", "B", "C", "D", "E", "F", "G", "H", "I", "J", "K", "L", "M",
           "N", "O", "P", "Q", "R", "S", "T", "U", "V", "W", "X", "Y", "Z" }

\* [A-Za-z0-9]
Alnum ==
  Digit \cup Upper \cup
  { "a", "b", "c", "d", "e", "f", "g", "h", "i", "j", "k", "l", "m",
    "n", "o", "p", "q", "r", "s", "t", "u", "v", "w", "x", "y", "z" }

\* w consists of exactly six characters of the class cls
SixOf(w, cls) == Len(w) = 6 /\ \A i \in 1 .. 6 : w[i] \in cls

Token(w, sep) == [ w |-> w, sep |-> sep ]

\* the least index of seq that satisfies Test, 0 if there is none
FirstIndex(seq, Test(_)) ==
  LET hits == { i \in 1 .. Len(seq) : Test(seq[i]) } IN
    IF hits = {} THEN 0 ELSE CHOOSE i \in hits : \A j \in hits : i <= j

\* re.match(r'^[A-Za-z0-9]{6}$', el.get_text().strip())
ElementIsCode(el) ==
  /\ Len(el.text) = 1
  /\ SixOf(el.text[1].w, Alnum)
  /\ el.text[1].sep \in { " ", "" }

\* the class patterns of method 1, in the order they are tried
ClassPatterns == << "verification-code", "verification_code", "code", "otp", "pin" >>

\* the class patterns that occur in str(class).lower(); None = no class
ClassContains(class) ==
  CASE class = "verification-code" -> { "verification-code", "code" }
    [] class = "Verification_Code" -> { "verification_code", "code" }
    [] class = "otp-box" -> { "otp" }
    [] class = "spinner" -> { "pin" }
    [] OTHER -> {}

\* method 1: the first pattern, in order, with a matching element whose
\* text is a six character code; << >> if there is none
ByClass(content) ==
  LET Found(pat) ==
        FirstIndex(content,
                   LAMBDA el : pat \in ClassContains(el.class) /\ ElementIsCode(el))
      p == FirstIndex(ClassPatterns, LAMBDA pat : Found(pat) # 0) IN
    IF p = 0 THEN << >> ELSE content[Found(ClassPatterns[p])].text[1].w

\* the tags of method 2, in the order they are tried
EmphasisTags == << "strong", "b", "h1", "h2", "h3", "span", "div", "p", "td" >>

\* method 2: the same over the emphasis tags
ByTag(content) ==
  LET Found(tag) ==
        FirstIndex(content, LAMBDA el : el.tag = tag /\ ElementIsCode(el))
      t == FirstIndex(EmphasisTags, LAMBDA tag : Found(tag) # 0) IN
    IF t = 0 THEN << >> ELSE content[Found(EmphasisTags[t])].text[1].w

\* soup.get_text(): the texts of all elements joined with nothing between
\* them, so a token that ends an element runs into the one that follows
RECURSIVE Glue(_)
Glue(tokens) ==
  IF Len(tokens) <= 1 THEN tokens
  ELSE IF tokens[1].sep = ""
    THEN Glue(<< Token(tokens[1].w \o tokens[2].w, tokens[2].sep) >>
              \o SubSeq(tokens, 3, Len(tokens)))
    ELSE << tokens[1] >> \o Glue(Tail(tokens))

RECURSIVE AllTokens(_)
AllTokens(content) ==
  IF content = << >> THEN << >>
  ELSE Head(content).text \o AllTokens(Tail(content))

\* the words (?:code|Code|CODE|verification) of the first pattern
Keywords ==
  { << "c", "o", "d", "e" >>, << "C", "o", "d", "e" >>, << "C", "O", "D", "E" >>,
    << "v", "e", "r", "i", "f", "i", "c", "a", "t", "i", "o", "n" >> }

EndsWith(w, k) ==
  Len(w) >= Len(k) /\ SubSeq(w, Len(w) - Len(k) + 1, Len(w)) = k

\* method 3: the four patterns over the plain text, in priority order
ByPattern(content) ==
  LET plain == Glue(AllTokens(content))
      AfterKeyword(i) ==
        /\ i > 1
        /\ \E k \in Keywords : EndsWith(plain[i - 1].w, k)
        /\ plain[i - 1].sep \in { " ", ":" }
        /\ SixOf(plain[i].w, Alnum)
      First(Test(_)) ==
        LET hits == { i \in 1 .. Len(plain) : Test(i) } IN
          IF hits = {} THEN 0 ELSE CHOOSE i \in hits : \A j \in hits : i <= j
      tries == << First(AfterKeyword),
                  First(LAMBDA i : SixOf(plain[i].w, Digit)),
                  First(LAMBDA i : SixOf(plain[i].w, Upper \cup Digit)),
                  First(LAMBDA i : SixOf(plain[i].w, Alnum)) >>
      n == FirstIndex(tries, LAMBDA i : i # 0) IN
    IF n = 0 THEN << >> ELSE plain[tries[n]].w

\* lines 141-176 with method 2 tried before method 1
ExtractTagFirst(content) ==
  IF content = << >> THEN << >>
  ELSE IF ByTag(content) # << >> THEN ByTag(content)
  ELSE IF ByClass(content) # << >> THEN ByClass(content)
  ELSE ByPattern(content)

\* _extract_code_from_html: the code, << >> for None
ExtractCodeFromHtml(content) ==
  IF content = << >> THEN << >>
  ELSE IF ByClass(content) # << >> THEN ByClass(content)
  ELSE IF ByTag(content) # << >> THEN ByTag(content)
  ELSE ByPattern(content)

\* ------------------------------------------------- get_verification_code

\* number of poll cycles a call may be given (its timeout, in cycles)
MaxPolls == 2

\* the mailbox of the call and config.google_mail, the expected sender
Mailbox == "box@d.example"
GoogleMail == "noreply@sender.example"

\* codes as they appear in mails
Code6 == << "A", "B", "1", "2", "C", "9" >>
Short4 == << "4", "8", "2", "9" >>

\* bodies of the top message of the per-mailbox feed
BodyStrong ==
  << [ tag |-> "p", class |-> None, text |-> << Token(<< "h", "i" >>, " ") >> ],
     [ tag |-> "strong", class |-> None, text |-> << Token(Code6, "") >> ] >>
Bodies ==
  { BodyStrong, << >>,
    << [ tag |-> "p", class |-> None, text |-> << Token(<< "h", "i" >>, ".") >> ] >> }

\* answers of GET /api/emails: an error (transport, status, payload) or
\* the list of messages, of which only the first is read
MailFeeds ==
  { [ ok |-> FALSE, emails |-> << >> ], [ ok |-> TRUE, emails |-> << >> ] }
  \cup { [ ok |-> TRUE, emails |-> << [ id |-> id, content |-> b ] >> ] :
           id \in { "m1", "m2" }, b \in Bodies }

\* answers of GET /admin/mails: an error or the list `results`; result is
\* metadata.ai_extract.result, << >> when absent, empty or unreadable
AdminFeeds ==
  LET mail(address, source, result) ==
        [ address |-> address, source |-> source, result |-> result ] IN
    { [ ok |-> FALSE, results |-> << >> ],
      [ ok |-> TRUE, results |-> << >> ],
      [ ok |-> TRUE, results |-> << mail(Mailbox, GoogleMail, Code6) >> ],
      [ ok |-> TRUE, results |-> << mail(Mailbox, GoogleMail, Short4) >> ],
      [ ok |-> TRUE, results |-> << mail("other@d.example", GoogleMail, Short4),
                                    mail(Mailbox, GoogleMail, Code6) >> ],
      [ ok |-> TRUE, results |-> << mail(Mailbox, GoogleMail, << >>),
                                    mail(Mailbox, GoogleMail, Short4) >> ],
      [ ok |-> TRUE, results |-> << mail(Mailbox, "other@sender.example", Code6) >> ] }

\* the baseline of lines 190-209: the id of the newest message, if any
BaselineOf(old_email_id, feed) ==
  IF old_email_id # None THEN old_email_id
  ELSE IF feed.ok /\ feed.emails # << >> THEN feed.emails[1].id
  ELSE None

\* mutant: the newest message is read whether it is new or not
PerMailboxPathNoBaseline(old_email_id, feed) ==
  IF ~ feed.ok \/ feed.emails = << >>
    THEN [ kind |-> "next", code |-> << >> ]
    ELSE IF ExtractCodeFromHtml(feed.emails[1].content) # << >>
      THEN [ kind |-> "return",
             code |-> ExtractCodeFromHtml(feed.emails[1].content) ]
      ELSE [ kind |-> "next", code |-> << >> ]

\* path 1 of a poll cycle (lines 213-252): "continue" when the newest
\* message is the baseline, "return" with the code extracted from its
\* body, else "next": on to path 2
PerMailboxPath(old_email_id, feed) ==
  IF ~ feed.ok \/ feed.emails = << >>
    THEN [ kind |-> "next", code |-> << >> ]
    ELSE IF old_email_id # None /\ feed.emails[1].id = old_email_id
      THEN [ kind |-> "continue", code |-> << >> ]
      ELSE IF ExtractCodeFromHtml(feed.emails[1].content) # << >>
        THEN [ kind |-> "return",
               code |-> ExtractCodeFromHtml(feed.emails[1].content) ]
        ELSE [ kind |-> "next", code |-> << >> ]

\* path 2 of a poll cycle (lines 255-275): the result of the first mail to
\* `email` from the expected sender that carries one, << >> if none
AdminPath(email, feed) ==
  LET n == FirstIndex(feed.results,
                      LAMBDA mail : /\ mail.address = email
                                    /\ mail.source = GoogleMail
                                    /\ mail.result # << >>) IN
    IF ~ feed.ok \/ n = 0 THEN << >> ELSE feed.results[n].result

\* a call get_verification_code(email, timeout, old_email_id); elapsed
\* counts the poll cycles slept through, log keeps what each cycle was
\* answered and whether it reached path 2, since the argument as given
InitVerification ==
  /\ InitService
  /\ call \in { [ fn |-> "get_verification_code", pc |-> "baseline",
                   email |-> Mailbox, timeout |-> timeout, since |-> id,
                   old_email_id |-> id, elapsed |-> 0, ret |-> << >>,
                   log |-> << >> ] :
                  timeout \in 0 .. MaxPolls, id \in { None, "m1" } }

\* lines 190-209: the baseline is captured unless the caller gave one
CaptureBaseline ==
  /\ call.pc = "baseline"
  /\ \E feed \in MailFeeds :
       call' = [ call EXCEPT !.old_email_id = BaselineOf(@, feed),
                             !.pc = "loop" ]
  /\ UNCHANGED service

\* one cycle of the while loop
PollCycle ==
  /\ call.pc = "loop"
  /\ call.elapsed < call.timeout
  /\ \E mail \in MailFeeds, admin \in AdminFeeds :
       LET one == PerMailboxPath(call.old_email_id, mail)
           two == AdminPath(call.email, admin)
           seen == [ mail |-> mail, admin |-> admin,
                     path2 |-> one.kind = "next" ]
           logged == [ call EXCEPT !.log = Append(@, seen) ] IN
         call' =
           CASE one.kind = "return" ->
                  [ logged EXCEPT !.ret = one.code, !.pc = "done" ]
             [] one.kind = "next" /\ two # << >> ->
                  [ logged EXCEPT !.ret = two, !.pc = "done" ]
             [] OTHER ->
                  [ logged EXCEPT !.elapsed = @ + 1 ]
  /\ UNCHANGED service

\* the loop condition fails: `return None`
PollDeadline ==
  /\ call.pc = "loop"
  /\ call.elapsed >= call.timeout
  /\ call' = [ call EXCEPT !.pc = "done" ]
  /\ UNCHANGED service

NextVerification == CaptureBaseline \/ PollCycle \/ PollDeadline

VerificationSpec == InitVerification /\ [][NextVerification]_vars

\* C12: a call given since_message_id = m whose per-mailbox feed shows m
\* as its newest message on every poll returns no code: every such cycle
\* ends at the baseline test without reading the body, sleeps, and the call
\* ends only when the deadline is reached.
C12_BaselineNotNew ==
  ( /\ call.since # None
    /\ \A k \in 1 .. Len(call.log) :
         /\ call.log[k].mail.ok
         /\ call.log[k].mail.emails # << >>
         /\ call.log[k].mail.emails[1].id = call.since ) =>
      /\ call.ret = << >>
      /\ call.elapsed = Len(call.log)
      /\ call.pc = "done" => call.elapsed = call.timeout

\* C12 witness: the call ended at its deadline after MaxPolls cycles, each
\* of which showed the baseline message, its body holding a code.
C12_Witness ==
  /\ call.pc = "done"
  /\ call.since = "m1"
  /\ Len(call.log) = MaxPolls
  /\ \A k \in 1 .. Len(call.log) :
       call.log[k].mail.emails = << [ id |-> "m1", content |-> BodyStrong ] >>
  /\ call.ret = << >>

\* C13: a call that ended after at least one poll cycle, with the
\* administrative feed holding on every cycle a message to the mailbox from
\* the expected sender with a pre-extracted code, returned a code.
C13_AdminCodeReturned ==
  ( /\ call.pc = "done"
    /\ Len(call.log) >= 1
    /\ \A k \in 1 .. Len(call.log) :
         AdminPath(call.email, call.log[k].admin) # << >> ) =>
      call.ret # << >>

\* C14: whatever a call returns as a code has exactly six characters.
C14_SixCharacters ==
  (call.pc = "done" /\ call.ret # << >>) => Len(call.ret) = 6

\* ----------------------------------------------------------- create_email

\* values of config.mail_api and config.admin_key: unset and empty, both
\* false for `not`, and set
Settings == { None, "", "set" }
\* values of config.email_domains
DomainLists == { << >>, << "d.example" >>, << "d.example", "e.example" >> }

\* answers of GET /api/generate-email: status 0 stands for a transport
\* error; object tells whether the payload is a JSON object, success and
\* email are its fields success and data.email ("" when missing)
GenerateAnswers ==
  { [ status |-> st, object |-> FALSE, success |-> FALSE, email |-> "" ] :
      st \in { 0, 200, 500 } }
  \cup { [ status |-> st, object |-> TRUE, success |-> ok, email |-> e ] :
           st \in { 200, 500 }, ok \in BOOLEAN, e \in { "", "gen@x.example" } }

\* answers of POST /admin/new_address, address "" when missing
NewAddressAnswers ==
  { [ status |-> st, object |-> FALSE, address |-> "" ] : st \in { 0, 200, 500 } }
  \cup { [ status |-> st, object |-> TRUE, address |-> a ] :
           st \in { 200, 500 }, a \in { "", "new@d.example" } }

\* lines 95-101: the mailbox the first endpoint yields, None if none
Generated(r) ==
  IF r.status = 200 /\ r.object /\ r.success /\ r.email # ""
    THEN r.email ELSE None

\* lines 128-132: the mailbox the second endpoint yields, None if none
NewAddress(r) ==
  IF r.status = 200 /\ r.object /\ r.address # ""
    THEN r.address ELSE None

\* mutant: the second endpoint is called whatever the configuration
FallbackAlways(email_domains) == TRUE

\* line 111: the second endpoint needs a configured domain
FallbackConfigured(email_domains) == email_domains # << >>

\* a call create_email(domain); requests lists what was sent and answered
InitCreateEmail ==
  /\ InitService
  /\ call \in { [ fn |-> "create_email", pc |-> "check", mail_api |-> api,
                   admin_key |-> key, email_domains |-> doms, domain |-> d,
                   requests |-> << >>, ret |-> None ] :
                  api \in Settings, key \in Settings, doms \in DomainLists,
                  d \in Domains }

\* lines 83-85: without mail API or key nothing is requested
CheckConfiguration ==
  /\ call.pc = "check"
  /\ call' = [ call EXCEPT !.pc = IF \/ call.mail_api \in { None, "" }
                                       \/ call.admin_key \in { None, "" }
                                    THEN "done" ELSE "generate" ]
  /\ UNCHANGED service

\* lines 87-108: the zero-configuration endpoint
GenerateEmail ==
  /\ call.pc = "generate"
  /\ \E r \in GenerateAnswers :
       LET sent == [ call EXCEPT !.requests =
                       Append(@, [ endpoint |-> "generate-email", domain |-> None,
                                   answer |-> r ]) ] IN
         call' = IF Generated(r) # None
                   THEN [ sent EXCEPT !.ret = Generated(r), !.pc = "done" ]
                   ELSE [ sent EXCEPT !.pc = "fallback" ]
  /\ UNCHANGED service

\* lines 110-139: the domain-based endpoint, with the domain of the caller
\* or, without one, any of the configured domains
RequestNewAddress ==
  /\ call.pc = "fallback"
  /\ IF FallbackConfigured(call.email_domains)
       THEN \E r \in NewAddressAnswers,
               d \in IF call.domain # None THEN { call.domain }
                     ELSE { call.email_domains[k] : k \in 1 .. Len(call.email_domains) } :
              LET sent == [ call EXCEPT !.requests =
                              Append(@, [ endpoint |-> "new_address",
                                          domain |-> d, answer |-> r ]) ] IN
                call' = [ sent EXCEPT !.ret = NewAddress(r), !.pc = "done" ]
       ELSE call' = [ call EXCEPT !.pc = "done" ]
  /\ UNCHANGED service

NextCreateEmail == CheckConfiguration \/ GenerateEmail \/ RequestNewAddress

CreateEmailSpec == InitCreateEmail /\ [][NextCreateEmail]_vars

\* C15: create_email requests nothing when the mail API or the key is not
\* set, and then fails; otherwise it asks the zero-configuration endpoint
\* first and the domain-based endpoint only second, only after the first
\* gave no mailbox (transport error, status other than 200, unusable
\* payload) and only with a configured domain; it returns the mailbox of
\* the first endpoint that gave one, and None only if none did.
C15_AllocationOrder ==
  LET req == call.requests
      First == req[1].answer
      firstGave ==
        First.status = 200 /\ First.object /\ First.success /\ First.email # ""
      Second == req[2].answer
      secondGave == Second.status = 200 /\ Second.object /\ Second.address # ""
      configured == call.mail_api = "set" /\ call.admin_key = "set" IN
    /\ Len(req) <= 2
    /\ ~ configured => (req = << >> /\ call.ret = None)
    /\ Len(req) >= 1 => req[1].endpoint = "generate-email"
    /\ Len(req) = 2 =>
         /\ req[2].endpoint = "new_address"
         /\ ~ firstGave
         /\ call.email_domains # << >>
         /\ req[2].domain # None
    /\ call.pc = "done" /\ configured =>
         /\ Len(req) >= 1
         /\ firstGave => (Len(req) = 1 /\ call.ret = First.email)
         /\ (~ firstGave /\ call.email_domains # << >>) =>
              /\ Len(req) = 2
              /\ call.ret = IF secondGave THEN Second.address ELSE None
         /\ (~ firstGave /\ call.email_domains = << >>) =>
              (Len(req) = 1 /\ call.ret = None)

\* C15 witness: the first endpoint answered 200 with success = false and
\* the second, asked for a configured domain, gave the mailbox returned.
C15_Witness ==
  /\ call.pc = "done"
  /\ Len(call.requests) = 2
  /\ call.requests[1].answer =
       [ status |-> 200, object |-> TRUE, success |-> FALSE,
         email |-> "gen@x.example" ]
  /\ call.requests[2].domain = "e.example"
  /\ call.ret = "new@d.example"

\* ----------------------------------------------------- wait_for_workspace

\* largest `timeout` of a call; the loop polls once per unit
MaxDeadline == 4
\* the default of max_crash_retries
DefaultCrashRetries == 3

\* what one poll meets.  page: driver.page_source shows a crash page
\* ("crashed"), is fine, or raises with a text that names a crash or a tab
\* ("raises_crash") or another text ("raises_other"); url: the same for
\* driver.current_url, read only below a fine page, "target" being a
\* workspace URL; recover: whether _recover_from_crash succeeds, if called
Polls ==
  { [ page |-> p, url |-> "elsewhere", recover |-> r ] :
      p \in { "crashed", "raises_crash" }, r \in BOOLEAN }
  \cup { [ page |-> "raises_other", url |-> "elsewhere", recover |-> TRUE ] }
  \cup { [ page |-> "fine", url |-> u, recover |-> TRUE ] :
           u \in { "target", "elsewhere", "raises_other" } }
  \cup { [ page |-> "fine", url |-> "raises_crash", recover |-> r ] :
           r \in BOOLEAN }

\* the text of the exception the poll raises inside the try block, or None
Raised(poll) ==
  IF poll.page \in { "raises_crash", "raises_other" } THEN poll.page
  ELSE IF poll.page = "fine" /\ poll.url \in { "raises_crash", "raises_other" }
    THEN poll.url
    ELSE None

\* mutant: the handler is entered for crash texts only
CaughtCrashOnly(text) == text = "raises_crash"

\* line 844: `except Exception` takes every exception of the try block
Caught(text) == TRUE

\* lines 825-827 and 846: the poll counts as a crash
IsCrash(poll) == poll.page = "crashed" \/ Raised(poll) = "raises_crash"

\* mutant: the budget is spent only beyond max_crash_retries crashes
BudgetSpentBeyond(crash_count, max_crash_retries) ==
  crash_count > max_crash_retries + 1

\* lines 830 and 848: the budget test, made after the count grew
BudgetSpent(crash_count, max_crash_retries) ==
  crash_count >= max_crash_retries

\* a call wait_for_workspace(driver, timeout, max_crash_retries); polls
\* counts the iterations begun, recoveries the calls of
\* _recover_from_crash, last is what the latest poll met, exit names the
\* return statement taken
InitWorkspace ==
  /\ InitService
  /\ call \in { [ fn |-> "wait_for_workspace", pc |-> "loop",
                   timeout |-> timeout, max_crash_retries |-> retries,
                   polls |-> 0, crash_count |-> 0, recoveries |-> 0,
                   last |-> [ page |-> "none", url |-> "none", recover |-> TRUE ],
                   ret |-> FALSE, exit |-> "none" ] :
                  timeout \in 0 .. MaxDeadline,
                  retries \in 0 .. DefaultCrashRetries }

\* the crash branch, the same in the try block and in the handler
OnCrash(c, poll) ==
  LET counted == [ c EXCEPT !.crash_count = @ + 1 ] IN
    IF BudgetSpent(counted.crash_count, c.max_crash_retries)
      THEN [ counted EXCEPT !.pc = "done", !.ret = FALSE, !.exit = "crash_budget" ]
      ELSE IF poll.recover
        THEN [ counted EXCEPT !.recoveries = @ + 1 ]
        ELSE [ counted EXCEPT !.recoveries = @ + 1, !.pc = "done",
                              !.ret = FALSE, !.exit = "recovery_failed" ]

\* one iteration of the for loop
Poll ==
  /\ call.pc = "loop"
  /\ call.polls < call.timeout
  /\ \E poll \in Polls :
       LET c == [ call EXCEPT !.polls = @ + 1, !.last = poll ] IN
         call' =
           IF Raised(poll) # None /\ ~ Caught(Raised(poll))
             THEN [ c EXCEPT !.pc = "done", !.exit = "raised" ]
           ELSE IF IsCrash(poll) THEN OnCrash(c, poll)
           ELSE IF Raised(poll) = None /\ poll.url = "target"
             THEN [ c EXCEPT !.pc = "done", !.ret = TRUE, !.exit = "target" ]
           ELSE c
  /\ UNCHANGED service

\* the loop ran out: the final `return False`
Exhausted ==
  /\ call.pc = "loop"
  /\ call.polls >= call.timeout
  /\ call' = [ call EXCEPT !.pc = "done", !.ret = FALSE, !.exit = "deadline" ]
  /\ UNCHANGED service

NextWorkspace == Poll \/ Exhausted

WorkspaceSpec == InitWorkspace /\ [][NextWorkspace]_vars

\* C16: a call gives up at the crash budget only with more crash signals
\* counted than max_crash_retries; with at most max_crash_retries crash
\* signals, each recovered, it goes on polling for the target.
C16_GiveUpBeyondBudget ==
  (call.pc = "done" /\ call.exit = "crash_budget") =>
    call.crash_count > call.max_crash_retries

\* C17: a call with the default budget whose first two polls met a crash
\* page, each recovered, and whose third poll met the target URL has
\* returned true after 2 recovery cycles; and no call ever makes more
\* recovery cycles than max_crash_retries.
C17_RecoveriesBounded ==
  /\ call.recoveries <= call.max_crash_retries
  /\ ( /\ call.max_crash_retries = DefaultCrashRetries
       /\ call.polls = 3
       /\ call.crash_count = 2
       /\ call.recoveries = 2
       /\ call.last.page = "fine" /\ call.last.url = "target" ) =>
       (call.pc = "done" /\ call.ret = TRUE)

\* C17 witness: that call.
C17_Witness ==
  /\ call.max_crash_retries = DefaultCrashRetries
  /\ call.timeout >= 3
  /\ call.polls = 3
  /\ call.crash_count = 2
  /\ call.recoveries = 2
  /\ call.last.url = "target"
  /\ call.ret = TRUE

\* C18: a call begins at most `timeout` polls and ends by returning a
\* boolean, never by an exception, whatever the polls meet (crash pages,
\* failed recoveries, exceptions of page_source or current_url); it
\* returns true only if its latest poll met a fine page at the target URL,
\* and false when the polls are used up.
C18_BooleanWithinDeadline ==
  /\ call.polls <= call.timeout
  /\ call.exit # "raised"
  /\ call.pc = "done" =>
       /\ call.ret \in BOOLEAN
       /\ call.exit \in { "target", "crash_budget", "recovery_failed", "deadline" }
       /\ call.ret => (call.last.page = "fine" /\ call.last.url = "target")
       /\ call.exit = "deadline" => (~ call.ret /\ call.polls = call.timeout)
  /\ (call.pc = "loop" /\ call.polls = call.timeout) => ~ call.ret

\* C18 witness: the call used up its polls on exceptions, crash signals
\* and a page elsewhere, and returned false.
C18_Witness ==
  /\ call.pc = "done"
  /\ call.exit = "deadline"
  /\ call.polls = MaxDeadline
  /\ call.crash_count = 2
  /\ call.last.url = "raises_other"
  /\ ~ call.ret

\* --------------------------------------------------------- clear_and_type

\* largest `attempts` of a call
MaxTypeAttempts == 3

\* strings are sequences of characters, " " being white space
RECURSIVE LStrip(_)
LStrip(str) ==
  IF str # << >> /\ Head(str) = " " THEN LStrip(Tail(str)) ELSE str

RECURSIVE RStrip(_)
RStrip(str) ==
  IF str # << >> /\ str[Len(str)] = " "
    THEN RStrip(SubSeq(str, 1, Len(str) - 1)) ELSE str

\* texts to type, and values _get_input_value may read from the field
\* (<< >> is "", also read when all three reads fail)
Texts == { << "a", "b" >>, << "a", "b", " " >>, << " ", "a", "b" >> }
FieldValues == Texts \cup { << "a" >>, << >> }

\* lines 359, 368, 378: last_value = _get_input_value(...).strip()
ReadBack(value) == LStrip(RStrip(value))

\* the readbacks of one attempt: after typing, after the scripted
\* assignment (script |-> FALSE when execute_script raises, which skips the
\* second) and after the tab key (tab |-> FALSE likewise); typed |-> FALSE
\* when send_keys raises while typing, which nothing catches
Attempts ==
  { [ typed |-> FALSE, script |-> FALSE, tab |-> FALSE, reads |-> << >> ] }
  \cup { [ typed |-> TRUE, script |-> sc, tab |-> tb, reads |-> << r1, r2, r3 >> ] :
           sc \in BOOLEAN, tb \in BOOLEAN,
           r1 \in FieldValues, r2 \in FieldValues, r3 \in FieldValues }

\* the readbacks the attempt makes against `text`, in order: each is made
\* only if the one before did not return
RECURSIVE ReadsMade(_, _, _)
ReadsMade(a, text, k) ==
  IF k > 3 THEN << >>
  ELSE IF (k = 2 /\ ~ a.script) \/ (k = 3 /\ ~ a.tab)
    THEN ReadsMade(a, text, k + 1)
    ELSE IF ReadBack(a.reads[k]) = text THEN << a.reads[k] >>
    ELSE << a.reads[k] >> \o ReadsMade(a, text, k + 1)

\* a call clear_and_type(driver, element, text, delay, attempts,
\* require_match).  Bookkeeping: tries, the iterations begun; wrong, those
\* in which every value read differed from text; first, the first value
\* read in the latest iteration; exact, whether some value read so far
\* equalled text; exit, how the call ended
InitType ==
  /\ InitService
  /\ call \in { [ fn |-> "clear_and_type", pc |-> "loop", text |-> text,
                   attempts |-> attempts, require_match |-> strict,
                   last_value |-> << >>, tries |-> 0, wrong |-> 0,
                   first |-> << >>, exact |-> FALSE, ret |-> FALSE,
                   exit |-> "none" ] :
                  text \in Texts, attempts \in 0 .. MaxTypeAttempts,
                  strict \in BOOLEAN }

\* range(max(1, attempts))
Iterations(attempts) == IF attempts < 1 THEN 1 ELSE attempts

\* one iteration of the loop
TypeAttempt ==
  /\ call.pc = "loop"
  /\ call.tries < Iterations(call.attempts)
  /\ \E a \in Attempts :
       LET begun == [ call EXCEPT !.tries = @ + 1 ]
           made == ReadsMade(a, call.text, 1)
           seen == [ begun EXCEPT
                       !.first = made[1],
                       !.last_value = ReadBack(made[Len(made)]),
                       !.wrong = IF \A k \in 1 .. Len(made) : made[k] # call.text
                                   THEN @ + 1 ELSE @,
                       !.exact = @ \/ \E k \in 1 .. Len(made) : made[k] = call.text ] IN
         call' =
           IF ~ a.typed
             THEN [ begun EXCEPT !.pc = "done", !.exit = "raised" ]
           ELSE IF seen.last_value = call.text
             THEN [ seen EXCEPT !.pc = "done", !.ret = TRUE, !.exit = "matched" ]
           ELSE seen
  /\ UNCHANGED service

\* lines 386-390: all iterations made without a match
TypeExhausted ==
  /\ call.pc = "loop"
  /\ call.tries >= Iterations(call.attempts)
  /\ call' = [ call EXCEPT !.pc = "done", !.ret = ~ call.require_match,
                           !.exit = "exhausted" ]
  /\ UNCHANGED service

NextType == TypeAttempt \/ TypeExhausted

TypeSpec == InitType /\ [][NextType]_vars

\* C19: a call makes at least one and at most max(1, attempts) typing
\* attempts; and a call whose readbacks differed from the text in its
\* first two attempts and whose third attempt reads back the text has
\* returned true.
C19_FlakyReadback ==
  /\ call.tries <= Iterations(call.attempts)
  /\ call.pc = "done" => call.tries >= 1
  /\ (call.tries = 3 /\ call.wrong = 2 /\ call.first = call.text) =>
       (call.pc = "done" /\ call.ret)

\* C20: a call returns true as soon as a value read back equals the text;
\* with every readback of every attempt different it returns false under
\* require_match and true without; so under require_match a true result
\* means that some value read back equalled the text character for
\* character.
C20_ExactMatch ==
  /\ call.exact => (call.pc = "done" /\ call.ret)
  /\ (call.pc = "done" /\ call.exit = "exhausted") =>
       call.ret = ~ call.require_match
  /\ (call.pc = "done" /\ call.require_match /\ call.ret) => call.exact

\* ---------------------------------------------------------------------
\* fill_verification_code (util/gemini_auth_utils.py, lines 423-560)
\*
\* call.code is the code after str(code).strip(); call.effects is the
\* sequence of effects the call had on the page, call.tried the widget
\* shapes it entered, call.exit the return statement it left through.
\* call.left tells why each shape that did not return was left: "few"
\* (fewer than six boxes) or "raised".  What the driver answers (raises,
\* finds, reads back) is chosen at each step.

FillCodes ==
  { Code6, Short4, << " " >> \o Code6 \o << " " >>,
    << "4", "8", "2", "9", "1", " " >>, Code6 \o << "7" >> }

InitFill ==
  /\ InitService
  /\ \E code \in FillCodes :
       call = [ fn |-> "fill_verification_code", pc |-> "start",
                raw |-> code, code |-> << >>, attempt |-> 0,
                effects |-> << >>, tried |-> << >>, left |-> << >>,
                ret |-> FALSE, exit |-> "none" ]

\* lines 432-440 without the length check
StartFillUnchecked ==
  /\ call.fn = "fill_verification_code"
  /\ call.pc = "start"
  /\ \E ran \in BOOLEAN :
       call' = [ call EXCEPT
                   !.code = LStrip(RStrip(call.raw)),
                   !.effects = IF ran THEN << "disable_resend" >> ELSE << >>,
                   !.pc = "pins" ]
  /\ UNCHANGED service

\* lines 432-440: strip, disable the resend controls (the script may
\* raise, which disable_resend_buttons swallows), check the length
StartFill ==
  /\ call.fn = "fill_verification_code"
  /\ call.pc = "start"
  /\ \E ran \in BOOLEAN :
       LET code == LStrip(RStrip(call.raw))
           begun == [ call EXCEPT
                        !.code = code,
                        !.effects = IF ran THEN << "disable_resend" >>
                                           ELSE << >> ] IN
         call' = IF Len(code) # 6
                   THEN [ begun EXCEPT !.pc = "done", !.ret = FALSE,
                                       !.exit = "length" ]
                   ELSE [ begun EXCEPT !.pc = "pins" ]
  /\ UNCHANGED service

\* lines 455-494: six boxes, one attempt of the loop of three per step;
\* the first step also looks the boxes up
PinBoxes ==
  /\ call.fn = "fill_verification_code"
  /\ call.pc = "pins"
  /\ LET entered == [ call EXCEPT
                        !.tried = IF call.attempt = 0
                                    THEN Append(@, "pins") ELSE @,
                        !.attempt = @ + 1 ] IN
       \/ /\ call.attempt = 0
          \* find_elements raised, or fewer than six boxes
          /\ \E why \in { "raised", "few" } :
               call' = [ entered EXCEPT !.left = Append(@, why),
                                        !.pc = "single" ]
       \/ \E partial \in BOOLEAN :
          \* pins[i].send_keys(ch) raised
            call' = [ entered EXCEPT
                        !.effects = IF partial THEN Append(@, "type_slots")
                                               ELSE @,
                        !.left = Append(@, "raised"),
                        !.pc = "single" ]
       \/ \* typed, first poll read the code
          call' = [ entered EXCEPT
                      !.effects = Append(@, "type_slots"),
                      !.pc = "done", !.ret = TRUE, !.exit = "pins_read" ]
       \/ \E whole \in BOOLEAN, read \in BOOLEAN :
          \* first poll failed, send to the first box, second poll
            LET sent == [ entered EXCEPT
                            !.effects =
                              IF whole
                                THEN @ \o << "type_slots", "type_whole" >>
                                ELSE Append(@, "type_slots") ] IN
              call' = IF read
                        THEN [ sent EXCEPT !.pc = "done", !.ret = TRUE,
                                           !.exit = "pins_read" ]
                      ELSE IF sent.attempt >= 3
                        THEN [ sent EXCEPT !.pc = "done", !.ret = TRUE,
                                           !.exit = "pins_unread" ]
                      ELSE sent
  /\ UNCHANGED service

\* lines 497-537 with a false result when the value was never read back
SingleBoxStrict ==
  /\ call.fn = "fill_verification_code"
  /\ call.pc = "single"
  /\ LET entered == [ call EXCEPT !.tried = Append(@, "single") ] IN
       \/ call' = [ entered EXCEPT !.left = Append(@, "raised"),
                                   !.pc = "otp" ]
       \/ call' = [ entered EXCEPT !.effects = Append(@, "type_single"),
                                   !.left = Append(@, "raised"),
                                   !.pc = "otp" ]
       \/ call' = [ entered EXCEPT !.effects = Append(@, "type_single"),
                                   !.pc = "done", !.ret = TRUE,
                                   !.exit = "single_read" ]
       \/ \E script \in BOOLEAN, read \in BOOLEAN :
            call' = [ entered EXCEPT
                        !.effects = IF script
                                      THEN @ \o << "type_single",
                                                   "script_value" >>
                                      ELSE Append(@, "type_single"),
                        !.pc = "done", !.ret = script /\ read,
                        !.exit = IF script /\ read THEN "single_read"
                                                   ELSE "single_unread" ]
  /\ UNCHANGED service

\* lines 497-537 going on to the next shape when the value was never
\* read back
SingleBoxFallsThrough ==
  /\ call.fn = "fill_verification_code"
  /\ call.pc = "single"
  /\ LET entered == [ call EXCEPT !.tried = Append(@, "single") ] IN
       \/ call' = [ entered EXCEPT !.left = Append(@, "raised"),
                                   !.pc = "otp" ]
       \/ call' = [ entered EXCEPT !.effects = Append(@, "type_single"),
                                   !.pc = "done", !.ret = TRUE,
                                   !.exit = "single_read" ]
       \/ call' = [ entered EXCEPT !.effects = Append(@, "type_single"),
                                   !.left = Append(@, "unread"),
                                   !.pc = "otp" ]
  /\ UNCHANGED service

\* lines 497-537: one box
SingleBox ==
  /\ call.fn = "fill_verification_code"
  /\ call.pc = "single"
  /\ LET entered == [ call EXCEPT !.tried = Append(@, "single") ] IN
       \/ \* wait.until or pin.send_keys(code) raised
          call' = [ entered EXCEPT !.left = Append(@, "raised"),
                                   !.pc = "otp" ]
       \/ \* typed, get_attribute raised in the readback loop
          call' = [ entered EXCEPT !.effects = Append(@, "type_single"),
                                   !.left = Append(@, "raised"),
                                   !.pc = "otp" ]
       \/ \* typed and read back within two seconds
          call' = [ entered EXCEPT !.effects = Append(@, "type_single"),
                                   !.pc = "done", !.ret = TRUE,
                                   !.exit = "single_read" ]
       \/ \E script \in BOOLEAN, read \in BOOLEAN :
          \* not read back: assign by script, read once more, return True
            call' = [ entered EXCEPT
                        !.effects = IF script
                                      THEN @ \o << "type_single",
                                                   "script_value" >>
                                      ELSE Append(@, "type_single"),
                        !.pc = "done", !.ret = TRUE,
                        !.exit = IF script /\ read THEN "single_read"
                                                   ELSE "single_unread" ]
  /\ UNCHANGED service

\* lines 540-553: the OTP container
OtpContainer ==
  /\ call.fn = "fill_verification_code"
  /\ call.pc = "otp"
  /\ LET entered == [ call EXCEPT !.tried = Append(@, "otp") ] IN
       \/ \* wait.until or first.click() raised
          call' = [ entered EXCEPT !.left = Append(@, "raised"),
                                   !.pc = "focus" ]
       \/ \* clicked, send_keys raised
          call' = [ entered EXCEPT !.effects = Append(@, "click_span"),
                                   !.left = Append(@, "raised"),
                                   !.pc = "focus" ]
       \/ \* clicked and sent, find_elements raised
          call' = [ entered EXCEPT
                      !.effects = @ \o << "click_span", "type_otp" >>,
                      !.left = Append(@, "raised"),
                      !.pc = "focus" ]
       \/ call' = [ entered EXCEPT
                      !.effects = @ \o << "click_span", "type_otp" >>,
                      !.pc = "done", !.ret = TRUE, !.exit = "otp" ]
  /\ UNCHANGED service

\* lines 556-560: send to the element that has the focus
FocusSend ==
  /\ call.fn = "fill_verification_code"
  /\ call.pc = "focus"
  /\ \E sent \in BOOLEAN :
       call' = [ call EXCEPT
                   !.tried = Append(@, "focus"),
                   !.effects = IF sent THEN Append(@, "type_focus") ELSE @,
                   !.pc = "done", !.ret = sent,
                   !.exit = IF sent THEN "focus" ELSE "focus_raised" ]
  /\ UNCHANGED service

FillSpec ==
  InitFill
    /\ [][StartFill \/ PinBoxes \/ SingleBox \/ OtpContainer \/ FocusSend]_vars

\* C21: a call whose code, once stripped, is not six characters long has
\* returned false at its first step: it entered no widget shape, and its
\* only effect on the page, if any, is the disabling of the resend
\* controls.
C21_WrongLengthFailsAtOnce ==
  (call.fn = "fill_verification_code" /\ call.pc # "start"
     /\ Len(call.code) # 6) =>
    /\ call.pc = "done"
    /\ call.ret = FALSE
    /\ call.tried = << >>
    /\ call.effects \in { << >>, << "disable_resend" >> }

C21_Witness ==
  /\ call.fn = "fill_verification_code"
  /\ call.pc = "done"
  /\ Len(call.raw) = 6
  /\ Len(call.code) = 5
  /\ call.effects = << "disable_resend" >>

\* C22 as stated: a finished call with a six-character code has returned
\* true.
C22_Original ==
  (call.fn = "fill_verification_code" /\ call.pc = "done"
     /\ Len(call.code) = 6) => call.ret

\* C22: a finished call has returned false exactly when the length check
\* failed or when, after all three shapes, the send to the focused
\* element raised; a call that typed the code without reading it back
\* has returned true.
C22_OptimisticUnlessNothingSent ==
  (call.fn = "fill_verification_code" /\ call.pc = "done") =>
    /\ call.ret = FALSE <=> call.exit \in { "length", "focus_raised" }
    /\ call.exit = "length" <=> Len(call.code) # 6
    /\ call.exit = "focus_raised" =>
         call.tried = << "pins", "single", "otp", "focus" >>

C22_Witness ==
  /\ call.fn = "fill_verification_code"
  /\ call.pc = "done"
  /\ Len(call.code) = 6
  /\ call.tried = << "pins", "single", "otp", "focus" >>
  /\ call.effects = << "type_focus" >>
  /\ call.ret

\* C31: the shapes are entered in the order six boxes, one box, OTP
\* container, send to the focus, each at most once; the one box is
\* entered only after fewer than six boxes were found or the six boxes
\* raised, the container only after the one box raised; a call that
\* returned from a shape entered no later one; and the keystrokes of an
\* earlier shape all come before those of a later one.
C31_ShapeOrder ==
  call.fn = "fill_verification_code" =>
    LET order == << "pins", "single", "otp", "focus" >>
        Rank(e) == CASE e \in { "type_slots", "type_whole" } -> 1
                     [] e \in { "type_single", "script_value" } -> 2
                     [] e \in { "click_span", "type_otp" } -> 3
                     [] e = "type_focus" -> 4
                     [] OTHER -> 0 IN
      /\ Len(call.tried) <= 4
      /\ call.tried = SubSeq(order, 1, Len(call.tried))
      /\ \A k \in 1 .. Len(call.tried) - 1 :
           /\ k <= Len(call.left)
           /\ call.left[k] \in (IF k = 1 THEN { "few", "raised" }
                                         ELSE { "raised" })
      /\ call.exit \in { "pins_read", "pins_unread" } =>
           call.tried = << "pins" >>
      /\ call.exit \in { "single_read", "single_unread" } =>
           call.tried = << "pins", "single" >>
      /\ call.exit = "otp" => call.tried = << "pins", "single", "otp" >>
      /\ \A i \in 1 .. Len(call.effects), j \in 1 .. Len(call.effects) :
           i < j => /\ Rank(call.effects[i]) <= Rank(call.effects[j])
                    /\ Rank(call.effects[j]) <= Len(call.tried)

\* six boxes typed in part and raised, the one box typed and raised at
\* the readback, the container returned
C31_Witness ==
  /\ call.fn = "fill_verification_code"
  /\ call.pc = "done"
  /\ call.exit = "otp"
  /\ call.left = << "raised", "raised" >>
  /\ call.effects = << "disable_resend", "type_slots", "type_single",
                       "click_span", "type_otp" >>

\* ---------------------------------------------------------------------
\* _extract_code_from_html applied to bodies of at most MaxElements
\* elements; call.rets holds the results of the applications made so far

MaxElements == 2

MailElements ==
    { [ tag |-> "strong", class |-> None,
        text |-> << Token(<< "A", "B", "1", "2", "C", "9" >>, "") >> ],
      [ tag |-> "div", class |-> "verification-code",
        text |-> << Token(<< "4", "8", "2", "9", "1", "3" >>, "") >> ],
      [ tag |-> "span", class |-> "spinner",
        text |-> << Token(<< "Z", "Z", "9", "9", "Z", "Z" >>, "") >> ],
      [ tag |-> "p", class |-> None,
        text |-> << Token(<< "y", "o", "u", "r" >>, " "),
                    Token(<< "c", "o", "d", "e" >>, " "),
                    Token(<< "i", "s" >>, " "),
                    Token(<< "4", "8", "2", "9", "1", "3" >>, " "),
                    Token(<< "v", "a", "l", "i", "d" >>, " "),
                    Token(<< "1", "0" >>, " "),
                    Token(<< "m", "i", "n" >>, "") >> ],
      [ tag |-> "p", class |-> None,
        text |-> << Token(<< "h", "e", "l", "l", "o" >>, " "),
                    Token(<< "t", "h", "e", "r", "e" >>, "") >> ],
      [ tag |-> "a", class |-> None,
        text |-> << Token(<< "c", "o", "d", "e" >>, ":"),
                    Token(<< "p", "l", "e", "a", "s", "e" >>, " "),
                    Token(<< "4", "8", "2", "9", "1", "3" >>, "") >> ],
      [ tag |-> "a", class |-> None,
        text |-> << Token(<< "u", "s", "e" >>, " "),
                    Token(<< "a", "b", "c", "1", "2", "3" >>, " "),
                    Token(<< "o", "r" >>, " "),
                    Token(<< "Q", "X", "7", "7", "8", "8" >>, "") >> ],
      [ tag |-> "div", class |-> "otp-box",
        text |-> << Token(<< "e", "n", "t", "e", "r" >>, " "),
                    Token(<< "b", "e", "l", "o", "w" >>, "") >> ],
      [ tag |-> "a", class |-> None,
        text |-> << Token(<< "4", "8", "2", "9" >>, "") >> ] }

ExtractBodies ==
  { << >> } \cup UNION { [ 1 .. n -> MailElements ] : n \in 1 .. MaxElements }

InitExtract ==
  /\ InitService
  /\ \E content \in ExtractBodies :
       call = [ fn |-> "_extract_code_from_html", content |-> content,
                rets |-> << >> ]

\* one application to the body of the call
Extract ==
  /\ call.fn = "_extract_code_from_html"
  /\ Len(call.rets) < 2
  /\ call' = [ call EXCEPT !.rets = Append(@, ExtractCodeFromHtml(call.content)) ]
  /\ UNCHANGED service

ExtractSpec == InitExtract /\ [][Extract]_vars

\* C23: every result is a match of the first of these that has one: an
\* element with a code-like class whose text is six alphanumerics, an
\* emphasis element whose text is six alphanumerics, a six alphanumeric
\* word after a keyword, a word of six digits, a word of six capitals
\* and digits, a word of six alphanumerics; it is << >> when none has;
\* two applications to the same body give the same result; the body
\* with <strong>AB12C9</strong> after other text gives AB12C9 and "your
\* code is 482913 valid 10 min" gives 482913.
C23_StagePriority ==
  call.fn = "_extract_code_from_html" =>
    LET content == call.content
        plain == Glue(AllTokens(content))
        Texts1(Test(_)) ==
          { content[i].text[1].w : i \in
              { j \in 1 .. Len(content) :
                  Test(content[j]) /\ ElementIsCode(content[j]) } }
        Words(Test(_)) ==
          { plain[i].w : i \in { j \in 1 .. Len(plain) : Test(j) } }
        stages ==
          << Texts1(LAMBDA el : ClassContains(el.class) # {}),
             Texts1(LAMBDA el : \E t \in 1 .. Len(EmphasisTags) :
                                  el.tag = EmphasisTags[t]),
             Words(LAMBDA j : /\ j > 1
                              /\ \E k \in Keywords : EndsWith(plain[j - 1].w, k)
                              /\ plain[j - 1].sep \in { " ", ":" }
                              /\ SixOf(plain[j].w, Alnum)),
             Words(LAMBDA j : SixOf(plain[j].w, Digit)),
             Words(LAMBDA j : SixOf(plain[j].w, Upper \cup Digit)),
             Words(LAMBDA j : SixOf(plain[j].w, Alnum)) >>
        Expected(r) ==
          \/ \A n \in 1 .. 6 : stages[n] = {} /\ r = << >>
          \/ \E n \in 1 .. 6 : /\ r \in stages[n]
                               /\ \A m \in 1 .. n - 1 : stages[m] = {} IN
      /\ \A k \in 1 .. Len(call.rets) :
           /\ Expected(call.rets[k])
           /\ call.rets[k] = call.rets[1]
           /\ (Len(content) = 2 /\ content[2].tag = "strong"
                 /\ content[1].tag = "p" /\ content[1].text[1].w = << "h", "e", "l", "l", "o" >>) =>
                call.rets[k] = Code6
           /\ (Len(content) = 1 /\ content[1].tag = "p"
                 /\ content[1].text[1].w = << "y", "o", "u", "r" >>) =>
                call.rets[k] = << "4", "8", "2", "9", "1", "3" >>

\* a body with a classed code after an emphasised one, extracted twice
C23_Witness ==
  /\ call.fn = "_extract_code_from_html"
  /\ Len(call.rets) = 2
  /\ Len(call.content) = 2
  /\ call.content[1].tag = "strong"
  /\ call.content[2].class = "verification-code"
  /\ call.rets[2] = << "4", "8", "2", "9", "1", "3" >>

\* ---------------------------------------------------------------------
\* extract_config_from_driver (util/gemini_auth_utils.py, lines 717-774)
\*
\* A sighting is what one reading of the browser gives: the URL (its
\* csesidx parameter, "" when there is none or it is blank, and its path
\* around a "cid" segment) and the two cookies (value "" when the cookie
\* is absent or empty).  The timeout is counted in polls.

\* the skew subtracted from the cookie expiry, in seconds
Skew == 43200

\* cookie expiries: seconds since the epoch, around noon and midnight of
\* one day; 0 stands for a cookie without expiry
Expiries ==
  { 0 } \cup { 20000 * 86400 + x : x \in { 0, 43199, 43200, 43201 } }

\* cid: "none" = no "cid" segment, "last" = "cid" is the last segment,
\* "empty" = "cid" followed by an empty segment, "id" = followed by c1
Sightings ==
  [ csesidx : { "", "7" }, cid : { "none", "last", "empty", "id" },
    ses : { "", "s" }, host : { "", "h" }, expiry : Expiries ]

\* lines 725-730: parts[i + 1].split("?")[0] of the first "cid" segment
\* that has a successor; "" stands for None as well
ConfigId(cid) == IF cid = "id" THEN "c1" ELSE ""

\* strftime of the universal time, whatever the zone of the host
FormatUniversal(t, zone) ==
  [ null |-> FALSE, day |-> t \div 86400, h |-> (t % 86400) \div 3600,
    m |-> (t % 3600) \div 60, s |-> t % 60 ]

\* datetime.fromtimestamp(t).strftime("%Y-%m-%d %H:%M:%S"): the calendar
\* day (counted from the epoch) and the time of day on the clock of the
\* host, which is zone seconds ahead of universal time
FormatLocal(t, zone) ==
  LET local == t + zone IN
    [ null |-> FALSE, day |-> local \div 86400,
      h |-> (local % 86400) \div 3600, m |-> (local % 3600) \div 60,
      s |-> local % 60 ]

InitCredentials ==
  /\ InitService
  /\ \E timeout \in 0 .. MaxPolls, zone \in { 0 - 18000, 0, 28800 },
        first \in Sightings :
       call = [ fn |-> "extract_config_from_driver", pc |-> "poll",
                timeout |-> timeout, zone |-> zone, elapsed |-> 0,
                seen |-> first, ok |-> FALSE,
                expires_at |-> [ null |-> TRUE, day |-> 0, h |-> 0,
                                 m |-> 0, s |-> 0 ],
                missing |-> << >> ]

\* lines 720-752: one poll; call.seen is what it read
PollCredentials ==
  /\ call.fn = "extract_config_from_driver"
  /\ call.pc = "poll"
  /\ call.elapsed < call.timeout
  /\ \E next \in Sightings :
       LET seen == call.seen IN
         call' =
           IF seen.ses # "" /\ seen.host # "" /\ seen.csesidx # ""
                /\ ConfigId(seen.cid) # ""
             THEN [ call EXCEPT
                      !.pc = "done", !.ok = TRUE,
                      !.expires_at =
                        IF seen.expiry # 0
                          THEN FormatLocal(seen.expiry - Skew, call.zone)
                          ELSE @ ]
             ELSE [ call EXCEPT !.elapsed = @ + 1, !.seen = next ]
  /\ UNCHANGED service

\* lines 754-774: the window is over; the browser is read once more
\* (call.seen) and the missing fields are logged
CredentialsTimeout ==
  /\ call.fn = "extract_config_from_driver"
  /\ call.pc = "poll"
  /\ call.elapsed >= call.timeout
  /\ LET seen == call.seen
         If(absent, name) == IF absent THEN << name >> ELSE << >> IN
       call' = [ call EXCEPT
                   !.pc = "done",
                   !.missing = If(seen.ses = "", "secure_c_ses")
                               \o If(seen.host = "", "host_c_oses")
                               \o If(seen.csesidx = "", "csesidx")
                               \o If(seen.cid = "none", "config_id") ]
  /\ UNCHANGED service

CredentialsSpec ==
  InitCredentials /\ [][PollCredentials \/ CredentialsTimeout]_vars

\* C24: a call that succeeded read all four fields in one poll; a call
\* that timed out reports exactly the fields that are absent from what
\* it read, so at least one.
C24_MissingIsExact ==
  (call.fn = "extract_config_from_driver" /\ call.pc = "done") =>
    LET seen == call.seen
        absent ==
          { f \in { "secure_c_ses", "host_c_oses", "csesidx", "config_id" } :
              \/ f = "secure_c_ses" /\ seen.ses = ""
              \/ f = "host_c_oses" /\ seen.host = ""
              \/ f = "csesidx" /\ seen.csesidx = ""
              \/ f = "config_id" /\ ConfigId(seen.cid) = "" } IN
      /\ call.ok => absent = {}
      /\ ~ call.ok =>
           /\ { call.missing[i] : i \in 1 .. Len(call.missing) } = absent
           /\ call.missing # << >>

\* C25: the expires_at of a credential made from a cookie with expiry T,
\* read on the clock of the host, is the instant T - 43200; without an
\* expiry it is null; and a poll that read all four fields made a
\* credential either way.
C25_ExpirySkew ==
  (call.fn = "extract_config_from_driver" /\ call.pc = "done" /\ call.ok) =>
    LET e == call.expires_at
        instant == e.day * 86400 + e.h * 3600 + e.m * 60 + e.s - call.zone IN
      /\ e.h \in 0 .. 23 /\ e.m \in 0 .. 59 /\ e.s \in 0 .. 59
      /\ call.seen.expiry # 0 => ~ e.null /\ instant = call.seen.expiry - 43200
      /\ call.seen.expiry = 0 => e.null

\* a credential whose expiry, less the skew, falls on the day before on
\* a clock behind universal time
C25_Witness ==
  /\ call.fn = "extract_config_from_driver"
  /\ call.pc = "done"
  /\ call.ok
  /\ call.zone < 0
  /\ call.seen.expiry = 20000 * 86400 + 43201
  /\ call.expires_at.day = 19999

\* ---------------------------------------------------------------------
\* _save_config (core/register_service.py, lines 149-180)
\*
\* call.file is accounts.json: absent, valid (a JSON array) or unreadable
\* (open or json.load raises), with the records it holds.  Two workers
\* may be saving: the one of the running attempt and one that its guard
\* gave up on.  call.savers[w] is the position of worker w in its save
\* and its local list.

\* number of saves made in one run
MaxSaves == 3

InitSave ==
  /\ InitService
  /\ \E state \in { "absent", "valid", "unreadable" }, n \in 0 .. 2 :
       /\ state = "absent" => n = 0
       /\ state = "unreadable" => n > 0
       /\ call = [ fn |-> "_save_config",
                   file |-> [ state |-> state,
                              records |-> [ k \in 1 .. n |-> [ id |-> 0 ] ] ],
                   begun |-> 0,
                   savers |-> [ w \in 1 .. 2 |->
                                  [ pc |-> "idle", accounts |-> << >> ] ] ]

\* lines 164-174: read the file, [] if it is absent or cannot be read,
\* and append the new record
ReadAccounts(w) ==
  /\ call.fn = "_save_config"
  /\ call.savers[w].pc = "idle"
  /\ call.begun < MaxSaves
  /\ LET stored == IF call.file.state = "valid" THEN call.file.records
                                                ELSE << >> IN
       call' = [ call EXCEPT
                   !.begun = @ + 1,
                   !.savers[w] =
                     [ pc |-> "loaded",
                       accounts |-> Append(stored, [ id |-> call.begun + 1 ]) ] ]
  /\ UNCHANGED service

\* lines 176-178: rewrite the file from the local list
WriteAccounts(w) ==
  /\ call.fn = "_save_config"
  /\ call.savers[w].pc = "loaded"
  /\ call' = [ call EXCEPT
                 !.file = [ state |-> "valid",
                            records |-> call.savers[w].accounts ],
                 !.savers[w] = [ pc |-> "idle", accounts |-> << >> ] ]
  /\ UNCHANGED service

SaveSpec ==
  InitSave /\ [][\E w \in 1 .. 2 : ReadAccounts(w) \/ WriteAccounts(w)]_vars

\* C26: every save leaves in the file the records that it held before,
\* unchanged and in their order, followed by exactly one new record.
C26_AppendOnly ==
  [][ (call.fn = "_save_config" /\ call'.file # call.file) =>
        /\ Len(call'.file.records) = Len(call.file.records) + 1
        /\ SubSeq(call'.file.records, 1, Len(call.file.records))
             = call.file.records ]_vars

\* ---------------------------------------------------------------------
\* the life of a task (core/register_service.py, lines 329-359)

\* C27: in every step the status of a task stays or moves from pending to
\* running or from running to success or failed (a first turn of the
\* coroutine that also ends the task passes through running within the
\* turn); finished_at is set in the step that makes the status terminal
\* and in no other; and a task whose finished_at is set is left as it is
\* by every step, those of later start calls and of abandoned workers
\* included.
C27_TerminalOnce ==
  [][ \A t \in TaskIds :
        LET old == tasks[t]
            new == tasks'[t] IN
          /\ old.status # new.status =>
               << old.status, new.status >> \in
                 { << PENDING, RUNNING >>, << PENDING, FAILED >>,
                   << RUNNING, SUCCESS >>, << RUNNING, FAILED >> }
          /\ Terminal(new) <=> new.finished_at
          /\ old.finished_at => new = old ]_vars

\* a finished task beside a later task, while a worker that the guard
\* gave up on during the finished task is still inside its attempt
C27_Witness ==
  /\ Len(tasks) = 2
  /\ tasks[1].finished_at
  /\ tasks[1].status = FAILED
  /\ tasks[2].status = RUNNING
  /\ \E w \in ThreadsOf(1) : threads[w].abandoned /\ threads[w].pc # "done"

\* ---------------------------------------------------------------------
\* the loop of _run_register_async (lines 335-351) with its pacing
\*
\* call.events is the sequence of what the coroutine did for a task of
\* call.count attempts: "attempt" (the attempt was handed to the
\* executor), "record" (its result was appended and counted) and
\* "sleep" (asyncio.sleep, with the seconds drawn by random.randint).

InitPacing ==
  /\ InitService
  /\ \E count \in 0 .. MaxAttempts + 1 :
       call = [ fn |-> "_run_register_async", pc |-> "loop", count |-> count,
                i |-> 0, events |-> << >>, error |-> FALSE ]

\* lines 335-344: one attempt, its result appended and counted; or the
\* submission to the executor raises and the except branch ends the task
RunAttempt ==
  /\ call.fn = "_run_register_async"
  /\ call.pc = "loop"
  /\ call.i < call.count
  /\ \/ \E success \in BOOLEAN :
          call' = [ call EXCEPT
                      !.events = @ \o << [ kind |-> "attempt", i |-> call.i,
                                           success |-> success, seconds |-> 0 ],
                                         [ kind |-> "record", i |-> call.i,
                                           success |-> success, seconds |-> 0 ] >>,
                      !.pc = "pace" ]
     \/ call' = [ call EXCEPT !.pc = "done", !.error = TRUE ]
  /\ UNCHANGED service

\* lines 346-348: the sleep between attempts, then the next iteration
Pace ==
  /\ call.fn = "_run_register_async"
  /\ call.pc = "pace"
  /\ \E seconds \in 2 .. 5 :
       call' = [ call EXCEPT
                   !.events =
                     IF SleepsAfter(call.i, call.count)
                       THEN Append(@, [ kind |-> "sleep", i |-> call.i,
                                        success |-> FALSE,
                                        seconds |-> seconds ])
                       ELSE @,
                   !.i = @ + 1,
                   !.pc = IF call.i + 1 < call.count THEN "loop" ELSE "done" ]
  /\ UNCHANGED service

\* range(0): the loop body never runs
NoAttempts ==
  /\ call.fn = "_run_register_async"
  /\ call.pc = "loop"
  /\ call.count = 0
  /\ call' = [ call EXCEPT !.pc = "done" ]
  /\ UNCHANGED service

PacingSpec == InitPacing /\ [][RunAttempt \/ Pace \/ NoAttempts]_vars

\* every sleep lasts a whole number of seconds from 2 to 5, follows at
\* once the record of an attempt that is not the last, and is followed
\* by nothing but the next attempt; and the record of every attempt but
\* the last is followed by a sleep once the coroutine has moved on
SleepsWellPlaced ==
  LET ev == call.events IN
    /\ \A k \in 1 .. Len(ev) :
         ev[k].kind = "sleep" =>
           /\ ev[k].seconds \in 2 .. 5
           /\ k > 1 /\ ev[k - 1].kind = "record" /\ ev[k - 1].i = ev[k].i
           /\ ev[k].i < call.count - 1
           /\ k < Len(ev) =>
                ev[k + 1].kind = "attempt" /\ ev[k + 1].i = ev[k].i + 1
    /\ \A k \in 1 .. Len(ev) :
         (ev[k].kind = "record" /\ ev[k].i < call.count - 1
            /\ (k < Len(ev) \/ call.pc # "pace")) =>
           k < Len(ev) /\ ev[k + 1].kind = "sleep"

SleepsMade ==
  Cardinality({ k \in 1 .. Len(call.events) : call.events[k].kind = "sleep" })

\* C28 as stated: the sleeps are placed between the attempts, and a task
\* of count n that ended made max(n - 1, 0) of them.
C28_Original ==
  call.fn = "_run_register_async" =>
    /\ SleepsWellPlaced
    /\ call.pc = "done" =>
         SleepsMade = IF call.count >= 1 THEN call.count - 1 ELSE 0

\* C28: the sleeps are placed between the attempts; a task of count n
\* whose loop ran to its end made max(n - 1, 0) of them, none after its
\* last attempt; a task that an error ended made one after each attempt
\* it recorded, which is at most n - 1.
C28_PacingBetweenAttempts ==
  call.fn = "_run_register_async" =>
    /\ SleepsWellPlaced
    /\ (call.pc = "done" /\ ~ call.error) =>
         /\ SleepsMade = IF call.count >= 1 THEN call.count - 1 ELSE 0
         /\ call.events # << >> => Last(call.events).kind = "record"
    /\ (call.pc = "done" /\ call.error) =>
         /\ SleepsMade = call.i
         /\ SleepsMade <= call.count - 1

C28_Witness ==
  /\ call.fn = "_run_register_async"
  /\ call.pc = "done"
  /\ call.count = 3
  /\ Len(call.events) = 8
  /\ call.events[3].seconds = 2
  /\ call.events[6].seconds = 5

\* ---------------------------------------------------------------------
\* perform_email_verification (util/gemini_auth_utils.py, lines 644-713)
\*
\* call.events is the sequence of what the call did to the page and to
\* the mail service: "type_email", "continue_click", "disable_resend"
\* (a call of disable_resend_buttons), "await_code"
\* (get_verification_code), "type_code", "verify_click"; how tells
\* whether the script of a disable ran or raised, and whether a click
\* was made on the element of the XPath or by the search over buttons.

InitSignup ==
  /\ InitService
  /\ call = [ fn |-> "perform_email_verification", pc |-> "email",
              events |-> << >>, success |-> FALSE, error |-> None ]

\* one more event
Did(events, kind, how) == Append(events, [ kind |-> kind, how |-> how ])

\* lines 656-681: find the input, type the address, click continue
\* (by XPath, else through click_primary_action)
TypeEmailAndContinue ==
  /\ call.fn = "perform_email_verification"
  /\ call.pc = "email"
  /\ \/ call' = [ call EXCEPT !.pc = "done", !.error = ErrNoEmailInput ]
     \/ call' = [ call EXCEPT !.pc = "done", !.error = ExcMessage ]
     \/ call' = [ call EXCEPT !.events = Did(@, "type_email", ""),
                              !.pc = "done", !.error = ErrEmailType ]
     \/ call' = [ call EXCEPT !.events = Did(@, "type_email", ""),
                              !.pc = "done", !.error = ErrContinue ]
     \/ \E how \in { "xpath", "search" } :
          call' = [ call EXCEPT
                      !.events = Did(Did(@, "type_email", ""),
                                     "continue_click", how),
                      !.pc = "code" ]
  /\ UNCHANGED service

\* lines 683-691: disable the resend buttons (the script runs, or raises
\* and is ignored), wait for the code
DisableAndAwaitCode ==
  /\ call.fn = "perform_email_verification"
  /\ call.pc = "code"
  /\ \E ran \in { "ran", "raised" }, code \in BOOLEAN :
       call' = [ call EXCEPT
                   !.events = Did(Did(@, "disable_resend", ran),
                                  "await_code", ""),
                   !.pc = IF code THEN "fill" ELSE "done",
                   !.error = IF code THEN @ ELSE ErrCodeTimeout ]
  /\ UNCHANGED service

\* lines 693-697: disable, then fill_verification_code, which disables
\* once more (line 436) before it types and returns true only if it typed
DisableAndFill ==
  /\ call.fn = "perform_email_verification"
  /\ call.pc = "fill"
  /\ \E ran \in { "ran", "raised" }, inner \in { "ran", "raised" },
        typed \in BOOLEAN, ret \in BOOLEAN :
       /\ ret => typed
       /\ LET before == Did(Did(call.events, "disable_resend", ran),
                            "disable_resend", inner) IN
            call' = [ call EXCEPT
                        !.events = IF typed THEN Did(before, "type_code", "")
                                            ELSE before,
                        !.pc = IF ret THEN "verify" ELSE "done",
                        !.error = IF ret THEN @ ELSE ErrCodeFill ]
  /\ UNCHANGED service

\* lines 702-710 without line 700
VerifyWithoutDisable ==
  /\ call.fn = "perform_email_verification"
  /\ call.pc = "verify"
  /\ \E how \in { "xpath", "search", "none" } :
       call' = [ call EXCEPT
                   !.events = IF how # "none" THEN Did(@, "verify_click", how)
                                              ELSE @,
                   !.pc = "done", !.success = TRUE ]
  /\ UNCHANGED service

\* lines 699-710: disable again, click verify (by XPath, else through
\* click_verify_only, whose result is not read)
DisableAndVerify ==
  /\ call.fn = "perform_email_verification"
  /\ call.pc = "verify"
  /\ \E ran \in { "ran", "raised" }, how \in { "xpath", "search", "none" } :
       LET before == Did(call.events, "disable_resend", ran) IN
         call' = [ call EXCEPT
                     !.events = IF how # "none"
                                  THEN Did(before, "verify_click", how)
                                  ELSE before,
                     !.pc = "done", !.success = TRUE ]
  /\ UNCHANGED service

SignupSpec ==
  InitSignup
    /\ [][TypeEmailAndContinue \/ DisableAndAwaitCode \/ DisableAndFill
            \/ DisableAndVerify]_vars

\* C29: the wait for the code is preceded by a call that disables the
\* resend buttons, made after the click that submitted the email; and a
\* click on the verify control is preceded by such a call made after the
\* last typing of the code.
C29_ResendDisabledFirst ==
  call.fn = "perform_email_verification" =>
    LET ev == call.events
        At(kind) == { k \in 1 .. Len(ev) : ev[k].kind = kind } IN
      /\ \A k \in At("await_code") :
           \E j \in At("disable_resend"), i \in At("continue_click") :
             i < j /\ j < k
      /\ \A k \in At("verify_click") :
           \E j \in At("disable_resend"), i \in At("type_code") :
             /\ i < j /\ j < k
             /\ \A n \in At("type_code") : n < j

C29_Witness ==
  /\ call.fn = "perform_email_verification"
  /\ call.pc = "done"
  /\ call.success
  /\ Len(call.events) = 9
  /\ Last(call.events).kind = "verify_click"

\* ---------------------------------------------------------------------
\* click_primary_action and click_verify_only
\* (util/gemini_auth_utils.py, lines 564-611 and 613-640)
\*
\* A page is the sequence of its buttons in document order.  A button has
\* its text and a kind: "submit" (type submit, displayed and enabled),
\* "plain" (displayed and enabled) or "hidden" (not displayed, not
\* enabled, or gone stale so that asking raises).  The timeout is counted
\* in rounds of the search loop, and the page may change between rounds.
\* Keywords are written in lower case, the Chinese ones in pinyin.

\* number of buttons on a page
MaxButtons == 2

\* the lists texts (primary) and allow (verify), lowered
Keys(fn) ==
  IF fn = "click_verify_only"
    THEN { "yanzheng", "verify" }
    ELSE { "jixu", "xiayibu", "denglu", "queren", "tijiao", "wancheng",
           "continue", "next", "sign in", "log in", "submit", "done",
           "create" }

\* the list deny of both functions, lowered
DenyKeys ==
  { "chongxin fasong", "resend", "send again", "try again", "chongxin huoqu" }

\* the keywords k with k.lower() in text.lower()
Contains(text) ==
  CASE text = "Continue" -> { "continue" }
    [] text = "Verify" -> { "verify" }
    [] text = "Resend and continue" -> { "resend", "continue" }
    [] text = "chongxin huoqu yanzhengma" -> { "chongxin huoqu", "yanzheng" }
    [] OTHER -> {}

Pages ==
  LET Buttons == [ text : { "Continue", "Verify", "Resend and continue",
                            "chongxin huoqu yanzhengma", "" },
                   kind : { "submit", "plain", "hidden" } ] IN
    UNION { [ 1 .. n -> Buttons ] : n \in 0 .. MaxButtons }

\* the searches with the allow list alone
TargetAllowOnly(fn, page) ==
  LET Hit(only) ==
        { i \in 1 .. Len(page) :
            /\ page[i].kind \in only
            /\ Contains(page[i].text) \cap Keys(fn) # {} }
      Least(set) == CHOOSE i \in set : \A j \in set : i <= j IN
    IF fn = "click_primary_action" /\ Hit({ "submit" }) # {}
      THEN Least(Hit({ "submit" }))
    ELSE IF Hit({ "submit", "plain" }) # {}
      THEN Least(Hit({ "submit", "plain" }))
    ELSE 0

\* one round: the index of the button that is clicked, 0 if none.  The
\* primary search goes over the submit buttons first (lines 577-590),
\* both go over all buttons (lines 592-608, 622-637): the first that is
\* displayed and enabled, has no deny phrase and has a keyword
Target(fn, page) ==
  LET Hit(only) ==
        { i \in 1 .. Len(page) :
            /\ page[i].kind \in only
            /\ page[i].text # ""
            /\ Contains(page[i].text) \cap DenyKeys = {}
            /\ Contains(page[i].text) \cap Keys(fn) # {} }
      Least(set) == CHOOSE i \in set : \A j \in set : i <= j IN
    IF fn = "click_primary_action" /\ Hit({ "submit" }) # {}
      THEN Least(Hit({ "submit" }))
    ELSE IF Hit({ "submit", "plain" }) # {}
      THEN Least(Hit({ "submit", "plain" }))
    ELSE 0

InitClick ==
  /\ InitService
  /\ \E fn \in { "click_primary_action", "click_verify_only" },
        timeout \in 0 .. MaxPolls, page \in Pages :
       call = [ fn |-> fn, pc |-> "search", timeout |-> timeout,
                round |-> 0, page |-> page, clicked |-> << >>,
                ret |-> FALSE ]

\* one round of the while loop
Search ==
  /\ call.fn \in { "click_primary_action", "click_verify_only" }
  /\ call.pc = "search"
  /\ call.round < call.timeout
  /\ LET hit == Target(call.fn, call.page) IN
       IF hit # 0
         THEN call' = [ call EXCEPT !.clicked = Append(@, call.page[hit]),
                                    !.ret = TRUE, !.pc = "done" ]
         ELSE \E page \in Pages :
                call' = [ call EXCEPT !.round = @ + 1, !.page = page ]
  /\ UNCHANGED service

\* the time is up: return False
GiveUp ==
  /\ call.fn \in { "click_primary_action", "click_verify_only" }
  /\ call.pc = "search"
  /\ call.round >= call.timeout
  /\ call' = [ call EXCEPT !.pc = "done" ]
  /\ UNCHANGED service

ClickSpec == InitClick /\ [][Search \/ GiveUp]_vars

\* C30: a search clicks at most one button; the button it clicks is
\* displayed and enabled, and its text has a keyword of the search and
\* no resend phrase; a search returns true exactly when it clicked; and
\* a round that finds no such button on the page clicks nothing.
C30_NeverResend ==
  [][ call'.fn \in { "click_primary_action", "click_verify_only" } =>
        LET Allowed(b) ==
              /\ b.kind # "hidden"
              /\ Contains(b.text) \cap Keys(call.fn) # {}
              /\ Contains(b.text) \cap DenyKeys = {} IN
          /\ Len(call'.clicked) <= 1
          /\ \A k \in 1 .. Len(call'.clicked) : Allowed(call'.clicked[k])
          /\ call'.ret <=> call'.clicked # << >>
          /\ call'.clicked # call.clicked =>
               \E i \in 1 .. Len(call.page) : call.page[i] = call'.clicked[1]
          /\ (\A i \in 1 .. Len(call.page) : ~ Allowed(call.page[i])) =>
               call'.clicked = << >> /\ ~ call'.ret ]_vars

\* the verify search passed over a resend button whose text has the
\* verify keyword, and clicked the button after it
C30_Witness ==
  /\ call.fn = "click_verify_only"
  /\ call.pc = "done"
  /\ call.ret
  /\ Len(call.page) = 2
  /\ call.page[1] = [ text |-> "chongxin huoqu yanzhengma", kind |-> "plain" ]
  /\ call.clicked = << [ text |-> "Verify", kind |-> "plain" ] >>

\* ---------------------------------------------------------------------
\* _recover_from_crash (util/gemini_auth_utils.py, lines 858-894)
\*
\* Window handles are numbers.  call.open is the set of open tabs,
\* call.original the handles read at line 861, call.new the handle found
\* at lines 865-870 (0 = None), call.focus the tab the driver is switched
\* to, call.at the tabs that were navigated to the target URL.

\* number of tabs open when the recovery starts
MaxTabs == 3

InitRecover ==
  /\ InitService
  /\ \E n \in 1 .. MaxTabs, focus \in 1 .. MaxTabs :
       /\ focus <= n
       /\ call = [ fn |-> "_recover_from_crash", pc |-> "open",
                   original |-> 1 .. n, open |-> 1 .. n, new |-> 0,
                   focus |-> focus, next |-> 1, at |-> {},
                   done |-> FALSE, ret |-> FALSE ]

\* lines 861-875: window.open, look for the new handle, switch to it
OpenTab ==
  /\ call.fn = "_recover_from_crash"
  /\ call.pc = "open"
  /\ LET new == Cardinality(call.original) + 1
         opened == [ call EXCEPT !.open = @ \cup { new } ] IN
       \/ \* window_handles or the script raised, or no tab was opened
          call' = [ call EXCEPT !.pc = "done", !.done = TRUE ]
       \/ \* the tab is there but switch_to.window raised
          call' = [ opened EXCEPT !.new = new, !.pc = "done", !.done = TRUE ]
       \/ call' = [ opened EXCEPT !.new = new, !.focus = new, !.pc = "close" ]
  /\ UNCHANGED service

\* lines 877-882: one turn of the loop over the original handles; what
\* raises is passed over
CloseOriginals ==
  /\ call.fn = "_recover_from_crash"
  /\ call.pc = "close"
  /\ call.next <= Cardinality(call.original)
  /\ LET turned == [ call EXCEPT !.next = @ + 1 ] IN
       \/ \* switch_to.window raised
          call' = turned
       \/ \* switched, close raised
          call' = [ turned EXCEPT !.focus = call.next ]
       \/ call' = [ turned EXCEPT !.focus = call.next,
                                  !.open = @ \ { call.next } ]
  /\ UNCHANGED service

\* lines 884-894: back to the new tab, load the target URL
Navigate ==
  /\ call.fn = "_recover_from_crash"
  /\ call.pc = "close"
  /\ call.next > Cardinality(call.original)
  /\ \/ \* switch_to.window raised
        call' = [ call EXCEPT !.pc = "done", !.done = TRUE ]
     \/ \* driver.get raised
        call' = [ call EXCEPT !.focus = call.new, !.pc = "done",
                              !.done = TRUE ]
     \/ call' = [ call EXCEPT !.focus = call.new, !.at = { call.new },
                              !.pc = "done", !.done = TRUE, !.ret = TRUE ]
  /\ UNCHANGED service

RecoverSpec == InitRecover /\ [][OpenTab \/ CloseOriginals \/ Navigate]_vars

\* C32: after a recovery that returned true the new tab is the only open
\* tab, has the focus and is at the target URL, so every tab that was
\* open before is closed; and a recovery that found no new tab returned
\* false.
C32_OnlyTheNewTab ==
  (call.fn = "_recover_from_crash" /\ call.done) =>
    /\ call.ret =>
         /\ call.new # 0
         /\ call.open = { call.new }
         /\ call.focus = call.new
         /\ call.at = { call.new }
         /\ call.open \cap call.original = {}
    /\ call.new = 0 => ~ call.ret

\* ---------------------------------------------------------------------
\* extract_config_with_retry (util/gemini_auth_utils.py, lines 896-939)
\*
\* call.log holds one record per pass: what the pass met, the value it
\* assigned to last_error (None if it assigned none) and the number of
\* refreshes or reloads it attempted.

\* the largest max_retries given to a call
MaxRetries == 3

\* what one pass of the loop can do.  The page source shows a crash
\* (lines 903-907); extract_config_from_workspace succeeds or fails with
\* its error (lines 909-916); or something raises, with a text that
\* names a crash or a tab (lines 920-929) or another text (lines
\* 930-936); the refresh of a branch of the try block may raise in turn
PassOutcomes ==
  LET out(met, error, refreshes) ==
        [ met |-> met, error |-> error, refreshes |-> refreshes ] IN
    { out("success", None, 0),
      out("crash_page", None, 1), out("crash_page", None, 2),
      out("crash_page", None, 3), out("crash_page", "refresh failed", 2),
      out("crash_raised", None, 1), out("crash_raised", None, 2),
      out("raised", ExcMessage, 1) }
    \cup UNION { { out("failure", e, 1), out("failure", e, 2),
                   out("failure", e, 3), out("failure", "refresh failed", 2) } :
                 e \in { "config incomplete", ExcMessage } }

InitRetry ==
  /\ InitService
  /\ \E max_retries \in 0 .. MaxRetries :
       call = [ fn |-> "extract_config_with_retry", pc |-> "loop",
                max_retries |-> max_retries, last_error |-> None,
                log |-> << >>, success |-> FALSE, error |-> None ]

\* one pass in which only the first error is kept
RetryPassKeepsFirst ==
  /\ call.fn = "extract_config_with_retry"
  /\ call.pc = "loop"
  /\ Len(call.log) < call.max_retries
  /\ \E o \in PassOutcomes :
       LET passed == [ call EXCEPT
                         !.log = Append(@, o),
                         !.last_error = IF @ = None THEN o.error ELSE @ ] IN
         call' = IF o.met = "success"
                   THEN [ passed EXCEPT !.pc = "done", !.success = TRUE ]
                   ELSE passed
  /\ UNCHANGED service

\* lines 900-936: one pass
RetryPass ==
  /\ call.fn = "extract_config_with_retry"
  /\ call.pc = "loop"
  /\ Len(call.log) < call.max_retries
  /\ \E o \in PassOutcomes :
       LET passed == [ call EXCEPT
                         !.log = Append(@, o),
                         !.last_error = IF o.error # None THEN o.error ELSE @ ] IN
         call' = IF o.met = "success"
                   THEN [ passed EXCEPT !.pc = "done", !.success = TRUE ]
                   ELSE passed
  /\ UNCHANGED service

\* line 938: the passes are used up
RetryExhausted ==
  /\ call.fn = "extract_config_with_retry"
  /\ call.pc = "loop"
  /\ Len(call.log) >= call.max_retries
  /\ call' = [ call EXCEPT
                 !.pc = "done",
                 !.error = IF call.last_error # None THEN call.last_error
                                                     ELSE "extract failed" ]
  /\ UNCHANGED service

RetrySpec == InitRetry /\ [][RetryPass \/ RetryExhausted]_vars

\* C33: a call makes at most max_retries passes; every pass that did not
\* succeed attempted a refresh; a successful pass is the last one and
\* ends the call with its result; and a call that used up its passes
\* returns a failure with the error of the last pass that had one, the
\* generic text if none had.
C33_LastErrorCarried ==
  call.fn = "extract_config_with_retry" =>
    LET log == call.log
        WithError == { k \in 1 .. Len(log) : log[k].error # None } IN
      /\ Len(log) <= call.max_retries
      /\ \A k \in 1 .. Len(log) :
           /\ log[k].met # "success" => log[k].refreshes >= 1
           /\ log[k].met = "success" =>
                k = Len(log) /\ call.pc = "done" /\ call.success
      /\ (call.pc = "done" /\ ~ call.success) =>
           /\ Len(log) = call.max_retries
           /\ \A k \in 1 .. Len(log) : log[k].met # "success"
           /\ WithError = {} => call.error = "extract failed"
           /\ \A k \in WithError :
                (\A j \in WithError : j <= k) => call.error = log[k].error

\* an extraction failure, then an exception, then a crash page: the
\* error is that of the second pass
C33_Witness ==
  /\ call.fn = "extract_config_with_retry"
  /\ call.pc = "done"
  /\ Len(call.log) = 3
  /\ call.log[1].error = "config incomplete"
  /\ call.log[2].met = "raised"
  /\ call.log[3].met = "crash_page" /\ call.log[3].error = None
  /\ call.error = ExcMessage

\* ---------------------------------------------------------------------
\* _get_email (core/register_service.py, lines 143-147)
\*
\* call.pool is _email_queue, call.initial what it held at the start.
\* Two threads may be inside _get_email: that of the running attempt and
\* one that its guard gave up on.  call.workers[w] is the position of
\* thread w, the mailbox its last call returned (0 = none yet, pooled
\* mailboxes are 1, 2, ..., created ones are larger), and whether that
\* call asked create_email or ended with the IndexError of pop.

\* number of mailboxes in the pool at the start
MaxPool == 3

InitPool ==
  /\ InitService
  /\ \E n \in 0 .. MaxPool :
       call = [ fn |-> "_get_email", initial |-> [ k \in 1 .. n |-> k ],
                pool |-> [ k \in 1 .. n |-> k ], handed |-> << >>,
                calls |-> 0,
                workers |-> [ w \in 1 .. 2 |->
                                [ pc |-> "idle", email |-> 0,
                                  created |-> FALSE, raised |-> FALSE ] ] ]

\* line 145, and line 147 when the queue is empty: create_email returns
\* a new mailbox
CheckPool(w) ==
  /\ call.fn = "_get_email"
  /\ call.workers[w].pc = "idle"
  /\ call.calls < MaxPool + 1
  /\ call' = [ call EXCEPT
                 !.calls = @ + 1,
                 !.workers[w] =
                   IF call.pool # << >>
                     THEN [ pc |-> "pop", email |-> 0, created |-> FALSE,
                            raised |-> FALSE ]
                     ELSE [ pc |-> "idle", email |-> MaxPool + call.calls + 1,
                            created |-> TRUE, raised |-> FALSE ] ]
  /\ UNCHANGED service

\* line 146 returning the head without removing it
PopHeadKeeps(w) ==
  /\ call.fn = "_get_email"
  /\ call.workers[w].pc = "pop"
  /\ call.pool # << >>
  /\ call' = [ call EXCEPT
                 !.handed = Append(@, Head(call.pool)),
                 !.workers[w] = [ pc |-> "idle", email |-> Head(call.pool),
                                  created |-> FALSE, raised |-> FALSE ] ]
  /\ UNCHANGED service

\* line 146: pop(0), which raises IndexError if the queue was emptied
\* since line 145
PopHead(w) ==
  /\ call.fn = "_get_email"
  /\ call.workers[w].pc = "pop"
  /\ call' =
       IF call.pool # << >>
         THEN [ call EXCEPT
                  !.pool = Tail(@),
                  !.handed = Append(@, Head(call.pool)),
                  !.workers[w] = [ pc |-> "idle", email |-> Head(call.pool),
                                   created |-> FALSE, raised |-> FALSE ] ]
         ELSE [ call EXCEPT
                  !.workers[w] = [ pc |-> "idle", email |-> 0,
                                   created |-> FALSE, raised |-> TRUE ] ]
  /\ UNCHANGED service

PoolSpec == InitPool /\ [][\E w \in 1 .. 2 : CheckPool(w) \/ PopHead(w)]_vars

\* C34: the pooled mailboxes are handed out in the order of the pool,
\* each removed as it is handed out and none twice; a call that finds
\* the pool non-empty asks for no new mailbox, and one that ends while
\* it is non-empty returns its head; create_email is asked only when the
\* pool is empty.
C34_PoolIsFifo ==
  [][ call'.fn = "_get_email" =>
        /\ call'.handed \o call'.pool = call'.initial
        /\ \A w \in 1 .. 2 :
             LET old == call.workers[w]
                 new == call'.workers[w] IN
               /\ (new.created /\ new # old) => call.pool = << >>
               /\ (new # old /\ call.pool # << >>) =>
                    /\ ~ new.created
                    /\ new.pc = "idle" =>
                         new.email = Head(call.pool) /\ call'.pool = Tail(call.pool)
               /\ \A v \in 1 .. 2 :
                    (v # w /\ new.email # 0 /\ ~ new.created) =>
                      call'.workers[v].email # new.email ]_vars

\* two threads found the one pooled mailbox; the first took it and the
\* pop of the second raised
C34_Witness ==
  /\ call.fn = "_get_email"
  /\ call.initial = << 1 >>
  /\ call.workers[1].email = 1
  /\ call.workers[2].raised

\* ---------------------------------------------------------------------
\* get_task and get_current_task (lines 361-369): what a caller on the
\* event loop reads between two turns of the loop
\*
\* The registry and the pointer are written by start_register and by the
\* coroutine of a task only, both on the event loop, and neither yields
\* between the status line and the end of the finally block: a reader
\* sees the states of Spec and none in between.

\* get_current_task: the task the pointer names, << >> = None
get_current_task ==
  IF current_task_id # 0 THEN << tasks[current_task_id] >> ELSE << >>

\* C35: the pointer is empty or names a registered task that is pending
\* or running, so get_current_task never returns a finished task; the step
\* in which a task becomes finished leaves the pointer empty; and the
\* registry never loses a task: every id start_register returned stays an
\* id of the registry, naming the task it named.
C35_PointerNamesUnfinished ==
  /\ [](/\ current_task_id \in { 0 } \cup TaskIds
        /\ \A k \in 1 .. Len(get_current_task) :
             /\ get_current_task[k].status \in { PENDING, RUNNING }
             /\ ~ get_current_task[k].finished_at)
  /\ [][ /\ \A t \in TaskIds :
                (~ Terminal(tasks[t]) /\ Terminal(tasks'[t])) =>
                  current_task_id' = 0
         /\ Len(tasks') >= Len(tasks)
         /\ \A t \in TaskIds : tasks'[t].count = tasks[t].count ]_vars

\* the first of two tasks has finished and cleared the pointer that the
\* second start had moved to the second task, which is still running
C35_Witness ==
  /\ Len(tasks) = 2
  /\ tasks[1].finished_at
  /\ tasks[2].status = RUNNING
  /\ get_current_task = << >>

\* ---------------------------------------------------------------------
\* the results of a task as a reader of get_task sees them

\* the results of a task that succeeded
Succeeded(task) ==
  { k \in 1 .. Len(task.results) : task.results[k].success }

\* C36: in every state a reader sees, a task has as many results as its
\* two counters add up to, and as many successful ones as success_count;
\* a result carries a credential exactly when it succeeded and an error
\* exactly when it did not; result k is the result of attempt k (what the
\* attempt's thread returned, or the timeout failure if the guard gave up
\* on it); and a step leaves the results as they are or appends one.
C36_ResultsMatchCounters ==
  /\ [](\A t \in TaskIds :
         LET task == tasks[t] IN
           /\ Len(task.results) = task.success_count + task.fail_count
           /\ Cardinality(Succeeded(task)) = task.success_count
           /\ \A k \in 1 .. Len(task.results) :
                LET r == task.results[k] IN
                  /\ r.config # 0 <=> r.success
                  /\ r.error # None <=> ~ r.success
                  /\ \E w \in ThreadsOf(t) :
                       /\ threads[w].attempt = k
                       /\ r = IF threads[w].abandoned
                                THEN FailureResult(0, ErrTimeout)
                                ELSE Outcome(threads[w]))
  /\ [][ \A t \in TaskIds :
            /\ Len(tasks'[t].results) \in
                 { Len(tasks[t].results), Len(tasks[t].results) + 1 }
            /\ SubSeq(tasks'[t].results, 1, Len(tasks[t].results)) =
                 tasks[t].results ]_vars

\* a task of two attempts, the first a success and the second a failure,
\* both recorded
C36_Witness ==
  \E t \in TaskIds :
    /\ Len(tasks[t].results) = 2
    /\ tasks[t].results[1].success
    /\ ~ tasks[t].results[2].success
    /\ tasks[t].success_count = 1
    /\ tasks[t].fail_count = 1

====
